---- MODULE Spec2Model ----
(***************************************************************************)
(* RedditSync: incremental sync of feed items into the store and the       *)
(* media ingestion pipeline.  Two source trees implement the same          *)
(* behaviour: src/app (SQLAlchemy ORM) and src/src (raw SQL); the variable  *)
(* tree says which one a behaviour runs.                                   *)
(*                                                                         *)
(* Spec    the orchestration: sync_all / sync_thread / sync_pending_media  *)
(*         of two runs that may overlap, interleaved at their await points *)
(*         on the shared store, and callers of add_subscription and        *)
(*         update_news_metrics in between.                                 *)
(* SpecSeq the same steps with runs executed one after another, over two   *)
(*         subscriptions; SpecIso adds writes that throw; SpecBudget is    *)
(*         the ORM tree's sync_all with an item budget and three items.    *)
(*         SpecRepoll is sync_all on a store that earlier runs filled.     *)
(* SpecMedia  overlapping media phases on a store of two polled items      *)
(*         (SpecBatch: the phases of one caller, one after another);       *)
(*         SpecSkip the same on a store with empty media locators.         *)
(* SpecDL  one download_media invocation, request by request, with the     *)
(*         tenacity retry envelope of download_file.                       *)
(* SpecUrl normalize_media_url applied once and twice to a URL.            *)
(* SpecExtract  extract_media_url applied to a submission.                 *)
(* SpecRetry  a media phase in which add_media or update_news_media may    *)
(*         raise.                                                          *)
(* SpecScan   download_file on a text/html response, by its body prefix.   *)
(* SpecMany   download_many on a list of URLs.                             *)
(* SpecLimit  the size limit download_file gets for a configured value.    *)
(* SpecSched  the two scheduler jobs of main() firing sync_news_task, with  *)
(*         the steps of sync_all inside every running instance.            *)
(***************************************************************************)
EXTENDS Integers, Sequences, FiniteSets, TLC

\* ------------------------------------------------------------------ bounds
\* operations started in one behaviour: sync_all and sync_pending_media
\* calls, calls of the store's functions, firings of the scheduler's jobs
MaxOps == 2
\* items a feed source delivers to one poll
MaxFeed == 2
\* files generate_uid names in one behaviour
MaxUid == 2
\* the attempts of one download_media invocation that are counted
MaxCount == 5
\* the size limit handed to download_file, in units of body size
MaxSize == 2
\* meta tags in the first bytes of an html body
MaxTags == 3
\* URLs handed to one download_many call
MaxUrls == 2

\* ------------------------------------------------------------- constants
Runs == {"r1", "r2"}
Trees == {"app", "src"}
Ids == {"p1", "p2"}
\* a missing value (Python None, SQL NULL)
Null == "NULL"
\* the media locators a feed reports for an item
FeedUrls == {Null, "u1"}
FeedScores == {0, 1}
\* max_posts: Optional[int] = None
NoBudget == -1
\* max_posts values a caller passes to sync_all
Budgets == {NoBudget, 1}
SeqBudgets == {NoBudget, 0, 1, 2}
\* sync_all's per-subscription limit when no budget is given
DefaultLimit == 100
\* the sizes a body can have: below, at and above the limit
Sizes == {MaxSize - 1, MaxSize, MaxSize + 1}
\* content-length values: 0 stands for a response without the header
\* (int(response.headers.get('content-length', 0)))
Declared == {0} \cup Sizes
\* @retry(stop=stop_after_attempt(3), ...)
MaxAttempts == 3
\* the body size of the downloads of the orchestration (Spec)
OrchestrationSizes == {1}
\* max_concurrent values of a media phase
ConcurrencyChoices == {1, 2}
\* the values generate_uid returns, in the order of the calls
UidNames == <<"f1", "f2", "f3", "f4", "f5", "f6", "f7", "f8">>

VARIABLES
    tree,           \* which source tree runs: "app" or "src"
    subscriptions,  \* table subscriptions: the thread ids, in listing order
    news,           \* table news: sequence of rows
    media,          \* table media: set of rows
    files,          \* the media directory: set of [uid, item, complete]
    nextUid,        \* generate_uid: index of the next fresh value
    run,            \* per run: the position and locals of sync_all and its callees
    started,        \* operations started so far
    errlog,         \* what sync_all's logger.error recorded: set of [sub, kind]
    dl,             \* SpecDL: the state of one download_media invocation
    call            \* a call of a pure function: its input and its results

vars == <<tree, subscriptions, news, media, files, nextUid, run, started, errlog, dl, call>>
storeVars == <<news, media, files, nextUid>>

\* --------------------------------------------------------------- helpers
Min(a, b) == IF a < b THEN a ELSE b

\* rows of table news with the external id e
RowsOf(rows, e) == {i \in DOMAIN rows : rows[i].external_id = e}

\* an existence check that finds nothing (a lookup on the wrong column)
news_exists_never(rows, e) == FALSE

\* select(News).where(News.external_id == e) ... scalar_one_or_none() is not None
\* / SELECT 1 FROM news WHERE external_id = ?
news_exists(rows, e) == RowsOf(rows, e) # {}

\* models.News.external_id: unique=True
NewsExternalIdUnique == TRUE

\* db_schema.sql of the raw-SQL tree (not among the sources): news.external_id
\* is the table's unique key
SchemaExternalIdUnique == TRUE

ExternalIdUnique(t) == IF t = "app" THEN NewsExternalIdUnique ELSE SchemaExternalIdUnique

\* the INSERT of a news row violates the unique key: IntegrityError
InsertConflict(t, rows, e) == ExternalIdUnique(t) /\ RowsOf(rows, e) # {}

\* a test that takes every integer, 0 included, for a budget
Truthy_zeroIsBudget(mp) == mp # NoBudget

\* Python truthiness of max_posts: None and 0 are false
Truthy(mp) == mp # NoBudget /\ mp # 0

\* submission_to_dict: the dict of a submission; it has no 'score' and no
\* 'comment_count' key
submission_to_dict(c) ==
    [external_id |-> c.external_id, media_url |-> c.media_url]

\* News(...) in sync_thread / add_news: post.get("score", 0) on that dict
NewRow(post) ==
    [external_id |-> post.external_id,
     media_url |-> post.media_url,
     media_uid |-> Null,
     score |-> 0,
     comment_count |-> 0]

\* score: int = None, comment_count: int = None (None is written -1 here)
NoMetric == -1

\* the metrics a session holds when it loaded no row
NoLoad == [score |-> 0, comment_count |-> 0]

\* result.scalar_one_or_none(): the score and comment_count of the row of e
\* as the session loads them
Loaded(rows, e) ==
    IF RowsOf(rows, e) = {} THEN NoLoad
    ELSE LET row == rows[CHOOSE i \in RowsOf(rows, e) : TRUE] IN
         [score |-> row.score, comment_count |-> row.comment_count]

\* session.commit() after score and comment_count were assigned on a loaded
\* row (NoMetric: not assigned): the UPDATE sets the columns whose assigned
\* value differs from the value the session loaded, and no other column
Flush(row, loaded, score, comment_count) ==
    [row EXCEPT !.score = IF score # NoMetric /\ score # loaded.score
                          THEN score ELSE @,
                !.comment_count = IF comment_count # NoMetric
                                     /\ comment_count # loaded.comment_count
                                  THEN comment_count ELSE @]

\* an update that also refreshes the media locator of the existing row
UpdateMetrics_withLocator(rows, e, loaded) ==
    [i \in DOMAIN rows |->
        IF rows[i].external_id = e
        THEN [Flush(rows[i], loaded, 0, 0) EXCEPT !.media_url = "u1"]
        ELSE rows[i]]

\* an update that writes the row anew and loses its media reference
UpdateMetrics_clearsReference(rows, e, loaded) ==
    [i \in DOMAIN rows |->
        IF rows[i].external_id = e
        THEN [Flush(rows[i], loaded, 0, 0) EXCEPT !.media_uid = Null]
        ELSE rows[i]]

\* existing.score = post.get('score', 0); existing.comment_count =
\* post.get('comment_count', 0); commit: the dict has neither key, both are
\* assigned 0 on the row loaded by the existence check
UpdateMetrics(rows, e, loaded) ==
    [i \in DOMAIN rows |->
        IF rows[i].external_id = e THEN Flush(rows[i], loaded, 0, 0) ELSE rows[i]]

Candidates == [external_id : Ids, media_url : FeedUrls, score : FeedScores]

NoPost == [external_id |-> Null, media_url |-> Null]

NoTasks == [e \in {} |-> Null]

IdleRun ==
    [pc |-> "idle", max_posts |-> NoBudget, total |-> 0, subIdx |-> 0,
     fetched |-> 0, polled |-> 0, processed |-> 0, post |-> NoPost,
     existing |-> FALSE, reported |-> 0, max_concurrent |-> 0, tasks |-> NoTasks,
     subs |-> <<>>, loaded |-> NoLoad, args |-> NoLoad]

\* no pure function is being called
NoCall == [stage |-> "none"]

NoDl ==
    [pc |-> "off", stack |-> <<>>, resp |-> Null, uid |-> Null,
     size |-> 0, err |-> "none", tries |-> 0, opened |-> 0]

Init ==
    /\ tree \in Trees
    /\ subscriptions = <<"siteA">>
    /\ news = <<>>
    /\ media = {}
    /\ files = {}
    /\ nextUid = 1
    /\ run = [r \in Runs |-> IdleRun]
    /\ started = 0
    /\ errlog = {}
    /\ dl = NoDl
    /\ call = NoCall

\* ----------------------------------------------------------- sync_all
\* the budget check at the head of the loop body (app tree only)
BudgetReached(t, rr) ==
    t = "app" /\ Truthy(rr.max_posts) /\ rr.total >= rr.max_posts

\* thread_limit = max_posts - total_processed if max_posts else 100
thread_limit(t, rr) ==
    IF t = "app" /\ Truthy(rr.max_posts) THEN rr.max_posts - rr.total ELSE DefaultLimit

\* what follows the polling loop: the media phase in the raw-SQL tree; in
\* the ORM tree the call is commented out and sync_all returns
AfterPolling(t) == IF t = "src" THEN [IdleRun EXCEPT !.pc = "pending"] ELSE IdleRun

\* a loop that leaves for what follows it after the first subscription
LoopHead_firstOnly(t, subs, rr) ==
    IF rr.subIdx > 1 \/ BudgetReached(t, rr)
    THEN AfterPolling(t)
    ELSE [rr EXCEPT !.pc = "thread", !.fetched = 0, !.processed = 0,
                    !.post = NoPost, !.existing = FALSE, !.loaded = NoLoad,
                    !.reported = 0]

\* for sub in subscriptions: the head of the loop, with rr the run's locals
\* when it is reached: leave the loop, or start sync_thread on the next
\* subscription (processed = 0)
LoopHead(t, subs, rr) ==
    IF rr.subIdx > Len(subs) \/ BudgetReached(t, rr)
    THEN AfterPolling(t)
    ELSE [rr EXCEPT !.pc = "thread", !.fetched = 0, !.processed = 0,
                    !.post = NoPost, !.existing = FALSE, !.loaded = NoLoad,
                    !.reported = 0]

\* a new operation takes the first free run slot
RunOrder(r, q) == r = q \/ (r = "r1" /\ q = "r2")
FirstFree(r) ==
    /\ run[r].pc = "idle"
    /\ \A q \in Runs : run[q].pc = "idle" => RunOrder(r, q)

\* sync_all(max_posts): total_processed = 0, load the subscriptions (subs:
\* the list the loop iterates over), enter the loop
SyncAllStart(r, mp) ==
    /\ FirstFree(r)
    /\ started < MaxOps
    /\ started' = started + 1
    /\ run' = [run EXCEPT ![r] =
            LoopHead(tree, subscriptions,
                [IdleRun EXCEPT !.max_posts = IF tree = "app" THEN mp ELSE NoBudget,
                                !.subIdx = 1,
                                !.subs = subscriptions])]
    /\ UNCHANGED <<call, tree, subscriptions, storeVars, errlog, dl>>

\* an exception of sync_thread that sync_all lets through: the run ends
Caught_raises(t, subs, rr) == IdleRun

\* except Exception in sync_all: log, go on with the next subscription
Caught(t, subs, rr) ==
    LoopHead(t, subs, [rr EXCEPT !.subIdx = @ + 1])

\* logger.error(f"Failed to sync {sub.thread_id}: {e}")
Logged(log, sub, kind) == log \cup {[sub |-> sub, kind |-> kind]}

\* ----------------------------------------------------------- sync_thread
\* async for post in get_thread_posts(...): the next post and the existence
\* check on it; reported keeps the score of the submission the post was made
\* from (the dict does not carry it)
\* (polled counts the posts the run has fetched over all its subscriptions)
ThreadFetch(r, c) ==
    LET rr == run[r]
        post == submission_to_dict(c) IN
    /\ rr.pc = "thread"
    /\ rr.fetched < Min(thread_limit(tree, rr), MaxFeed)
    /\ run' = [run EXCEPT ![r].pc = "commit",
                          ![r].fetched = @ + 1,
                          ![r].polled = @ + 1,
                          ![r].post = post,
                          ![r].existing = news_exists(news, post.external_id),
                          ![r].loaded = Loaded(news, post.external_id),
                          ![r].reported = c.score]
    /\ UNCHANGED <<call, tree, subscriptions, storeVars, started, errlog, dl>>

\* the generator is exhausted: sync_thread returns processed, sync_all adds
\* it to total_processed and goes on with the next subscription
ThreadEnd(r) ==
    LET rr == run[r] IN
    /\ rr.pc = "thread"
    /\ run' = [run EXCEPT ![r] =
            LoopHead(tree, rr.subs,
                [rr EXCEPT !.total = IF tree = "app" THEN @ + rr.processed ELSE @,
                           !.subIdx = @ + 1])]
    /\ UNCHANGED <<call, tree, subscriptions, storeVars, started, errlog, dl>>

\* the feed source throws while the next post is produced (the listing stops
\* by itself once it has yielded limit posts)
ThreadFeedError(r) ==
    /\ run[r].pc = "thread"
    /\ run[r].fetched < thread_limit(tree, run[r])
    /\ run' = [run EXCEPT ![r] = Caught(tree, @.subs, @)]
    /\ errlog' = Logged(errlog, run[r].subs[run[r].subIdx], "feed")
    /\ UNCHANGED <<call, tree, subscriptions, storeVars, started, dl>>

\* the write that follows the existence check: session.add + commit of a new
\* row, or the commit of the metrics assigned on the row the check loaded
\* (app tree); add_news or nothing (raw-SQL tree)
ThreadCommit(r) ==
    LET rr == run[r]
        e == rr.post.external_id IN
    /\ rr.pc = "commit"
    /\ IF ~rr.existing
       THEN IF InsertConflict(tree, news, e)
            THEN /\ run' = [run EXCEPT ![r] = Caught(tree, @.subs, @)]
                 /\ errlog' = Logged(errlog, rr.subs[rr.subIdx], "integrity")
                 /\ UNCHANGED news
            ELSE /\ news' = Append(news, NewRow(rr.post))
                 /\ UNCHANGED errlog
                 /\ run' = [run EXCEPT ![r].pc = "thread",
                                       ![r].processed = IF tree = "app" THEN @ + 1 ELSE @,
                                       ![r].post = NoPost, ![r].existing = FALSE,
                                       ![r].loaded = NoLoad, ![r].reported = 0]
       ELSE /\ news' = IF tree = "app" THEN UpdateMetrics(news, e, rr.loaded) ELSE news
            /\ run' = [run EXCEPT ![r].pc = "thread",
                                  ![r].post = NoPost, ![r].existing = FALSE,
                                  ![r].loaded = NoLoad, ![r].reported = 0]
            /\ UNCHANGED errlog
    /\ UNCHANGED <<call, tree, subscriptions, media, files, nextUid, started, dl>>

\* the write fails for another reason than the unique key (the database is
\* locked, the disk is full): the exception leaves sync_thread
ThreadStoreError(r) ==
    /\ run[r].pc = "commit"
    /\ run' = [run EXCEPT ![r] = Caught(tree, @.subs, @)]
    /\ errlog' = Logged(errlog, run[r].subs[run[r].subIdx], "store")
    /\ UNCHANGED <<call, tree, subscriptions, storeVars, started, dl>>

\* ------------------------------------------------------ sync_pending_media
\* a caller invokes sync_pending_media on its own (the ORM tree's sync_all
\* does not call it)
SyncPendingMediaStart(r) ==
    /\ FirstFree(r)
    /\ started < MaxOps
    /\ started' = started + 1
    /\ run' = [run EXCEPT ![r] = [IdleRun EXCEPT !.pc = "pending"]]
    /\ UNCHANGED <<call, tree, subscriptions, storeVars, errlog, dl>>

\* a pending query without the media_uid filter: every row with a locator
get_pending_media_unfiltered(rows) ==
    {rows[i].external_id : i \in {j \in DOMAIN rows : rows[j].media_url # Null}}

\* get_pending_media: WHERE media_url IS NOT NULL AND media_uid IS NULL
get_pending_media(rows) ==
    {rows[i].external_id : i \in {j \in DOMAIN rows :
        rows[j].media_url # Null /\ rows[j].media_uid = Null}}

\* the media_url column of the pending row e
PendingUrl(rows, e) == rows[CHOOSE i \in RowsOf(rows, e) : TRUE].media_url

NewTask(url) == [st |-> "new", url |-> url, uid |-> Null, size |-> 0]

\* pending = await db.get_pending_media(); semaphore = Semaphore(max_concurrent);
\* one sync_media_item task per pending item
MediaPending(r, n) ==
    /\ run[r].pc = "pending"
    /\ run' = [run EXCEPT ![r].pc = "gather",
                          ![r].max_concurrent = n,
                          ![r].tasks = [e \in get_pending_media(news) |->
                                            NewTask(PendingUrl(news, e))]]
    /\ UNCHANGED <<call, tree, subscriptions, storeVars, started, errlog, dl>>

\* a semaphore that counts no holder (download_file called outside of it)
InFlight_uncounted(rr) == {}

\* downloader invocations of run r that hold the semaphore
InFlight(rr) ==
    {e \in DOMAIN rr.tasks : rr.tasks[e].st \in {"inflight", "streaming", "closing"}}

\* a normalizer that gives every locator a URL to fetch
NormalizedEmpty_never(url) == FALSE

\* normalize_media_url on the locators of this model: empty or None gives ''
\* (the rules of the normalizer are modelled with the normalizer)
NormalizedEmpty(url) == url = "" \/ url = Null

\* download_media up to the semaphore: url = normalize_media_url(url);
\* if not url: return None; ensure_media_dir (the directory is there or can
\* be made); async with semaphore
TaskStart(r, e) ==
    LET rr == run[r] IN
    /\ rr.pc = "gather"
    /\ e \in DOMAIN rr.tasks
    /\ rr.tasks[e].st = "new"
    /\ IF NormalizedEmpty(rr.tasks[e].url)
       THEN run' = [run EXCEPT ![r].tasks[e].st = "done"]
       ELSE /\ Cardinality(InFlight(rr)) < rr.max_concurrent
            /\ run' = [run EXCEPT ![r].tasks[e].st = "inflight"]
    /\ UNCHANGED <<call, tree, subscriptions, storeVars, started, errlog, dl>>

\* a name that is not fresh: the same value on every call
generate_uid_fixed(n) == UidNames[1]

\* generate_uid: uuid4().hex, a fresh value on every call
generate_uid(n) == UidNames[n]

\* models.Media: uid_filename unique=True, news_external_id unique=True
\* (the raw-SQL tree's media row has no news_external_id)
MediaConflict(t, rows, row) ==
    \E m \in rows :
        \/ m.uid_filename = row.uid_filename
        \/ t = "app" /\ m.news_external_id = row.news_external_id

MediaRow(t, e, uid, size) ==
    [uid_filename |-> uid, size_bytes |-> size,
     news_external_id |-> IF t = "app" THEN e ELSE Null]

\* an insert that replaces the rows it conflicts with
add_media_upsert(t, rows, row) ==
    {m \in rows : ~MediaConflict(t, {m}, row)} \cup {row}

\* add_media: insert the media row; on a unique-key conflict the table is
\* left as it is
add_media(t, rows, row) ==
    IF MediaConflict(t, rows, row) THEN rows ELSE rows \cup {row}

\* an add_media without the except clause: every conflict reaches the caller
add_media_raises_always(t, rows, row) == MediaConflict(t, rows, row)

\* the IntegrityError of a conflict reaches the caller of add_media: the ORM
\* tree rolls back and swallows it (except IntegrityError), the raw-SQL
\* tree's plain INSERT lets it through
add_media_raises(t, rows, row) == t = "src" /\ MediaConflict(t, rows, row)

\* the file of uid that item e's download has open / has closed
FileOf(uid, e, complete) == [uid |-> uid, item |-> e, complete |-> complete]

\* an attempt of download_file gets its response and comes to
\* aiofiles.open(file_path, 'wb'): the file uid_filename = generate_uid() is
\* there, and the body is written to it chunk by chunk
TaskOpened(r, e) ==
    LET rr == run[r]
        uid == generate_uid(nextUid) IN
    /\ rr.pc = "gather"
    /\ e \in DOMAIN rr.tasks
    /\ rr.tasks[e].st = "inflight"
    /\ nextUid <= MaxUid
    /\ nextUid' = nextUid + 1
    /\ files' = files \cup {FileOf(uid, e, FALSE)}
    /\ run' = [run EXCEPT ![r].tasks[e] = [@ EXCEPT !.st = "streaming", !.uid = uid]]
    /\ UNCHANGED <<call, tree, subscriptions, news, media, started, errlog, dl>>

\* an attempt of download_file fails while it streams the body: the file it
\* opened stays in the media directory as it is, the retry envelope starts
\* another attempt,
\* which will take a fresh name.  An attempt that fails before it opens a
\* file changes nothing.
TaskAttemptFailed(r, e) ==
    LET rr == run[r] IN
    /\ rr.pc = "gather"
    /\ e \in DOMAIN rr.tasks
    /\ rr.tasks[e].st = "streaming"
    /\ run' = [run EXCEPT ![r].tasks[e] = [@ EXCEPT !.st = "inflight", !.uid = Null]]
    /\ UNCHANGED <<call, tree, subscriptions, storeVars, started, errlog, dl>>

\* the body has been written to its end: the file is complete, download_file
\* returns the metadata (size_bytes = os.path.getsize); leaving
\* async with semaphore, http_client() awaits client.aclose() first
TaskDownloaded(r, e, size) ==
    LET rr == run[r]
        uid == rr.tasks[e].uid IN
    /\ rr.pc = "gather"
    /\ e \in DOMAIN rr.tasks
    /\ rr.tasks[e].st = "streaming"
    /\ files' = (files \ {FileOf(uid, e, FALSE)}) \cup {FileOf(uid, e, TRUE)}
    /\ run' = [run EXCEPT ![r].tasks[e] = [@ EXCEPT !.st = "closing", !.size = size]]
    /\ UNCHANGED <<call, tree, subscriptions, news, media, nextUid, started, errlog, dl>>

\* the client is closed, the semaphore is released, download_media returns
\* the metadata to sync_media_item
TaskReturned(r, e) ==
    LET rr == run[r] IN
    /\ rr.pc = "gather"
    /\ e \in DOMAIN rr.tasks
    /\ rr.tasks[e].st = "closing"
    /\ run' = [run EXCEPT ![r].tasks[e].st = "downloaded"]
    /\ UNCHANGED <<call, tree, subscriptions, storeVars, started, errlog, dl>>

\* sync_media_item: if media_info: await db.add_media(...); an exception of
\* add_media is caught by sync_media_item, which logs it and ends
TaskAddMedia(r, e) ==
    LET rr == run[r]
        row == MediaRow(tree, e, rr.tasks[e].uid, rr.tasks[e].size) IN
    /\ rr.pc = "gather"
    /\ e \in DOMAIN rr.tasks
    /\ rr.tasks[e].st = "downloaded"
    /\ media' = add_media(tree, media, row)
    /\ run' = [run EXCEPT ![r].tasks[e].st =
                    IF add_media_raises(tree, media, row) THEN "logged" ELSE "added"]
    /\ UNCHANGED <<call, tree, subscriptions, news, files, nextUid, started, errlog, dl>>

\* the task states of an invocation that has ended
EndStates == {"done", "logged"}

\* a failure that escapes the task and takes the rest of the batch with it:
\* the tasks that have not ended are cancelled
TaskDownloadFailed_cancels(r, e, partial) ==
    LET rr == run[r] IN
    /\ rr.pc = "gather"
    /\ e \in DOMAIN rr.tasks
    /\ rr.tasks[e].st = (IF partial THEN "streaming" ELSE "inflight")
    /\ run' = [run EXCEPT ![r].tasks =
            [x \in DOMAIN rr.tasks |->
                IF x = e THEN [rr.tasks[x] EXCEPT !.st = "done", !.uid = Null]
                ELSE IF rr.tasks[x].st \in EndStates THEN rr.tasks[x]
                ELSE [rr.tasks[x] EXCEPT !.st = "cancelled"]]]
    /\ UNCHANGED <<call, tree, subscriptions, storeVars, started, errlog, dl>>

\* the last attempt of download_file fails and the exception leaves the retry
\* envelope: download_media logs it and returns None, sync_media_item does
\* nothing more.  When that attempt fails while it streams the body
\* (partial) it leaves its file behind, incomplete, as the attempts before it
\* did.
TaskDownloadFailed(r, e, partial) ==
    LET rr == run[r] IN
    /\ rr.pc = "gather"
    /\ e \in DOMAIN rr.tasks
    /\ rr.tasks[e].st = (IF partial THEN "streaming" ELSE "inflight")
    /\ run' = [run EXCEPT ![r].tasks[e] = [@ EXCEPT !.st = "done", !.uid = Null]]
    /\ UNCHANGED <<call, tree, subscriptions, storeVars, started, errlog, dl>>

\* update_news_media: news.media_uid = media_uid where external_id = e
update_news_media(rows, e, uid) ==
    [i \in DOMAIN rows |->
        IF rows[i].external_id = e THEN [rows[i] EXCEPT !.media_uid = uid] ELSE rows[i]]

\* sync_media_item: await db.update_news_media(...)
TaskUpdateNews(r, e) ==
    LET rr == run[r] IN
    /\ rr.pc = "gather"
    /\ e \in DOMAIN rr.tasks
    /\ rr.tasks[e].st = "added"
    /\ news' = update_news_media(news, e, rr.tasks[e].uid)
    /\ run' = [run EXCEPT ![r].tasks[e].st = "done"]
    /\ UNCHANGED <<call, tree, subscriptions, media, files, nextUid, started, errlog, dl>>

\* ensure_media_dir raises (the directory is not there and cannot be made:
\* its parent is missing, the path is a file): the exception leaves
\* download_media before the semaphore is taken and reaches sync_media_item's
\* except, which logs it
TaskMediaDirError(r, e) ==
    LET rr == run[r] IN
    /\ rr.pc = "gather"
    /\ e \in DOMAIN rr.tasks
    /\ rr.tasks[e].st = "new"
    /\ ~NormalizedEmpty(rr.tasks[e].url)
    /\ run' = [run EXCEPT ![r].tasks[e].st = "logged"]
    /\ UNCHANGED <<call, tree, subscriptions, storeVars, started, errlog, dl>>

\* add_media fails for another reason than a unique key (the database is
\* locked, the disk is full) after download_file wrote the file: the
\* exception reaches sync_media_item's except, which logs it
TaskAddMediaError(r, e) ==
    LET rr == run[r] IN
    /\ rr.pc = "gather"
    /\ e \in DOMAIN rr.tasks
    /\ rr.tasks[e].st = "downloaded"
    /\ run' = [run EXCEPT ![r].tasks[e].st = "logged"]
    /\ UNCHANGED <<call, tree, subscriptions, storeVars, started, errlog, dl>>

\* update_news_media fails after add_media has committed the media row: the
\* exception reaches sync_media_item's except, which logs it
TaskUpdateNewsError(r, e) ==
    LET rr == run[r] IN
    /\ rr.pc = "gather"
    /\ e \in DOMAIN rr.tasks
    /\ rr.tasks[e].st = "added"
    /\ run' = [run EXCEPT ![r].tasks[e].st = "logged"]
    /\ UNCHANGED <<call, tree, subscriptions, storeVars, started, errlog, dl>>

\* await asyncio.gather(*tasks) returns: every task has ended
MediaDone(r) ==
    LET rr == run[r] IN
    /\ rr.pc = "gather"
    /\ \A e \in DOMAIN rr.tasks : rr.tasks[e].st \in EndStates
    /\ run' = [run EXCEPT ![r] = IdleRun]
    /\ UNCHANGED <<call, tree, subscriptions, storeVars, started, errlog, dl>>

\* ------------------------------------------- download_media, step by step
\* One sync_media_item call for the pending item DlItem.  dl.stack holds the
\* attempt number of every download_file frame that is active, outermost
\* first; dl.resp is the response of the attempt under way, or of the attempt
\* that failed last.
DlItem == "p1"

\* what a GET can answer: an exception before any byte of the body is
\* written (connection error, timeout, error status: raise_for_status), or a
\* response with its content type, declared content-length, the kind of the
\* first 1024 bytes of its body and the real length of the body
\*   prefix "plain"   no <!DOCTYPE html> / <html marker
\*          "doc"      markers, but no og:image / twitter:image with a content="..."
\*          "docimg"   markers and an image meta tag with a content="..." URL
Responses ==
    {[kind |-> "error", ctype |-> "media", declared |-> 0, prefix |-> "plain", actual |-> MaxSize]}
    \cup [kind : {"ok"}, ctype : {"media"}, declared : Declared, prefix : {"plain"}, actual : Sizes]
    \cup [kind : {"ok"}, ctype : {"html"}, declared : Declared,
          prefix : {"plain", "doc", "docimg"}, actual : Sizes]

\* if size > max_size
TooLarge(resp) == resp.declared > MaxSize
\* if content_type.startswith('text/html')
IsHtml(resp) == resp.ctype = "html"
\* the response brings download_file to aiofiles.open
OpensFile(resp) == resp.kind = "ok" /\ ~TooLarge(resp) /\ ~IsHtml(resp)

InitDL ==
    /\ tree \in Trees
    /\ subscriptions = <<"siteA">>
    /\ news = <<NewRow([external_id |-> DlItem, media_url |-> "u1"])>>
    /\ media = {}
    /\ files = {}
    /\ nextUid = 1
    /\ run = [r \in Runs |-> IdleRun]
    /\ started = 0
    /\ errlog = {}
    /\ dl = [NoDl EXCEPT !.pc = "start"]
    /\ call = NoCall

\* download_media: the URL normalizes to a non-empty one, the media
\* directory is there or is made, the semaphore is free: download_file is
\* called (attempt 1)
DlStart ==
    /\ dl.pc = "start"
    /\ dl' = [dl EXCEPT !.pc = "request", !.stack = <<1>>]
    /\ UNCHANGED <<call, tree, subscriptions, storeVars, run, started, errlog>>

\* download_media: ensure_media_dir raises (the directory is not there and
\* cannot be made) before the try: the exception reaches sync_media_item,
\* which logs it; nothing was requested and nothing written
DlMediaDirError ==
    /\ dl.pc = "start"
    /\ dl' = [dl EXCEPT !.pc = "nodir"]
    /\ UNCHANGED <<call, tree, subscriptions, storeVars, run, started, errlog>>

\* one attempt begins: async with client.stream('GET', url) as response
DlRequest(resp) ==
    /\ dl.pc = "request"
    /\ OpensFile(resp) => nextUid <= MaxUid
    /\ dl' = [dl EXCEPT !.pc = "response",
                        !.resp = resp,
                        !.tries = Min(@ + 1, MaxCount),
                        !.err = "none"]
    /\ UNCHANGED <<call, tree, subscriptions, storeVars, run, started, errlog>>

\* tenacity around download_file: an exception ends the attempt of the
\* frame; below stop_after_attempt(3) the frame starts its next attempt, at
\* 3 the RetryError leaves the frame; out of the outermost frame it reaches
\* download_media, which returns None
Unwind(stack) ==
    IF stack[Len(stack)] < MaxAttempts
    THEN [stack EXCEPT ![Len(stack)] = @ + 1]
    ELSE SubSeq(stack, 1, Len(stack) - 1)

\* a retry envelope without a stop: the attempt is repeated whatever its
\* number
Raise_noStop(d, kind) ==
    [d EXCEPT !.pc = "request", !.uid = Null, !.err = kind]

\* an exception of kind leaves the attempt
Raise(d, kind) ==
    LET st == Unwind(d.stack) IN
    [d EXCEPT !.pc = IF st = <<>> THEN "failed" ELSE "request",
              !.stack = st,
              !.uid = Null,
              !.err = kind]

\* a client whose aread takes a size: the page is taken for a loader page and
\* download_file calls itself for the URL it embeds, one frame deeper for
\* every page (frames beyond the third are not told apart)
ReadPreview_followsLoader(d) ==
    [d EXCEPT !.pc = "request", !.stack = IF Len(@) < 3 THEN Append(@, 1) ELSE @]

\* content_preview = await response.aread(1024): the client is the
\* httpx.AsyncClient of http_client(), whose Response.aread takes no
\* argument: the call raises TypeError, on every text/html response
ReadPreview(d) == Raise(d, "typeerror")

\* download_file from the response headers to the open file: the status,
\* the size check, the html check, the file name
DlHandle ==
    LET resp == dl.resp IN
    /\ dl.pc = "response"
    /\ IF resp.kind = "error"
       THEN /\ dl' = Raise(dl, "transient")
            /\ UNCHANGED <<files, nextUid>>
       ELSE IF TooLarge(resp)
       THEN /\ dl' = Raise(dl, "size")
            /\ UNCHANGED <<files, nextUid>>
       ELSE IF IsHtml(resp)
       THEN /\ dl' = ReadPreview(dl)
            /\ UNCHANGED <<files, nextUid>>
       ELSE /\ dl' = [dl EXCEPT !.pc = "streaming",
                                !.uid = generate_uid(nextUid),
                                !.opened = Min(@ + 1, MaxCount)]
            /\ nextUid' = nextUid + 1
            /\ files' = files \cup {FileOf(generate_uid(nextUid), DlItem, FALSE)}
    /\ UNCHANGED <<call, tree, subscriptions, news, media, run, started, errlog>>

\* async for chunk in response.aiter_bytes(): await f.write(chunk), to the
\* end of the body: the metadata is returned, with
\* size_bytes = os.path.getsize(file_path)
DlStreamed ==
    /\ dl.pc = "streaming"
    /\ files' = (files \ {FileOf(dl.uid, DlItem, FALSE)})
                    \cup {FileOf(dl.uid, DlItem, TRUE)}
    /\ dl' = [dl EXCEPT !.pc = "returned", !.stack = <<>>, !.size = dl.resp.actual]
    /\ UNCHANGED <<call, tree, subscriptions, news, media, nextUid, run, started, errlog>>

\* the stream breaks before the end of the body: the exception leaves the
\* file where it is
DlStreamFailed ==
    /\ dl.pc = "streaming"
    /\ dl' = Raise(dl, "stream")
    /\ UNCHANGED <<call, tree, subscriptions, storeVars, run, started, errlog>>

\* sync_media_item: if media_info: await db.add_media(...); the conflict the
\* raw-SQL tree's INSERT lets through is caught and logged (except Exception)
DlAddMedia ==
    LET row == MediaRow(tree, DlItem, dl.uid, dl.size) IN
    /\ dl.pc = "returned"
    /\ media' = add_media(tree, media, row)
    /\ dl' = [dl EXCEPT !.pc = IF add_media_raises(tree, media, row)
                               THEN "logged" ELSE "added"]
    /\ UNCHANGED <<call, tree, subscriptions, news, files, nextUid, run, started, errlog>>

\* add_media raises for another reason than a unique key (the database is
\* locked): sync_media_item logs the exception and ends
DlAddMediaError ==
    /\ dl.pc = "returned"
    /\ dl' = [dl EXCEPT !.pc = "logged"]
    /\ UNCHANGED <<call, tree, subscriptions, storeVars, run, started, errlog>>

\* sync_media_item: await db.update_news_media(item['external_id'], uid)
DlUpdateNews ==
    /\ dl.pc = "added"
    /\ news' = update_news_media(news, DlItem, dl.uid)
    /\ dl' = [dl EXCEPT !.pc = "stored"]
    /\ UNCHANGED <<call, tree, subscriptions, media, files, nextUid, run, started, errlog>>

\* update_news_media raises after add_media has committed: sync_media_item
\* logs the exception and ends, the media row stays
DlUpdateNewsError ==
    /\ dl.pc = "added"
    /\ dl' = [dl EXCEPT !.pc = "logged"]
    /\ UNCHANGED <<call, tree, subscriptions, storeVars, run, started, errlog>>

NextDL ==
    \/ DlStart
    \/ DlMediaDirError
    \/ \E resp \in Responses : DlRequest(resp)
    \/ DlHandle
    \/ DlStreamed
    \/ DlStreamFailed
    \/ DlAddMedia
    \/ DlAddMediaError
    \/ DlUpdateNews
    \/ DlUpdateNewsError

SpecDL == InitDL /\ [][NextDL]_vars

\* the event loop resumes the download whenever it can go on, and the
\* transport ends every request with a response or an exception
FairSpecDL == SpecDL /\ WF_vars(NextDL)

\* ------------------------------------------- calls of the store's functions
\* thread ids a caller can subscribe to
ThreadIds == {"siteA", "siteB"}

\* metric values a caller passes; None leaves the column as it is
MetricArgs == {NoMetric} \cup FeedScores

\* add_subscription(thread_id): the row is appended; the insert of a thread
\* id that is stored is dropped (IntegrityError caught / INSERT OR IGNORE)
add_subscription(subs, t) ==
    IF \E i \in DOMAIN subs : subs[i] = t THEN subs ELSE Append(subs, t)

\* a caller (slot r) adds a subscription
AddSubscription(r, t) ==
    /\ FirstFree(r)
    /\ started < MaxOps
    /\ started' = started + 1
    /\ subscriptions' = add_subscription(subscriptions, t)
    /\ UNCHANGED <<call, tree, storeVars, run, errlog, dl>>

\* the news items a caller hands to add_news
NewsItems ==
    [external_id : Ids, media_url : FeedUrls, score : FeedScores,
     comment_count : FeedScores]

\* the row add_news stores: the ORM tree takes score and comment_count from
\* the item, the raw-SQL tree's INSERT names neither column
StoredRow(t, item) ==
    [NewRow(item) EXCEPT !.score = IF t = "app" THEN item.score ELSE @,
                         !.comment_count = IF t = "app" THEN item.comment_count ELSE @]

\* add_news(news_item): the row is inserted; on a unique-key conflict the
\* table is left as it is (the ORM tree rolls back and swallows the
\* IntegrityError, the raw-SQL tree's INSERT raises it to the caller)
add_news(t, rows, item) ==
    IF InsertConflict(t, rows, item.external_id) THEN rows
    ELSE Append(rows, StoredRow(t, item))

\* a caller (slot r) adds a news item
AddNews(r, item) ==
    /\ FirstFree(r)
    /\ started < MaxOps
    /\ started' = started + 1
    /\ news' = add_news(tree, news, item)
    /\ UNCHANGED <<call, tree, subscriptions, media, files, nextUid, run, errlog, dl>>

\* update_news_metrics(external_id, score, comment_count) of the ORM tree,
\* to its await of the SELECT: the session loads the row; without a row the
\* call returns
UpdateNewsMetricsSelect(r, e, score, comment_count) ==
    /\ tree = "app"
    /\ FirstFree(r)
    /\ started < MaxOps
    /\ started' = started + 1
    /\ run' = IF news_exists(news, e)
              THEN [run EXCEPT ![r] =
                        [IdleRun EXCEPT !.pc = "metrics",
                                        !.post = [external_id |-> e, media_url |-> Null],
                                        !.existing = TRUE,
                                        !.loaded = Loaded(news, e),
                                        !.args = [score |-> score,
                                                  comment_count |-> comment_count]]]
              ELSE run
    /\ UNCHANGED <<call, tree, subscriptions, storeVars, errlog, dl>>

\* if score is not None: news.score = score; if comment_count is not None:
\* news.comment_count = comment_count; commit
update_news_metrics(rows, e, loaded, score, comment_count) ==
    [i \in DOMAIN rows |->
        IF rows[i].external_id = e
        THEN Flush(rows[i], loaded, score, comment_count)
        ELSE rows[i]]

\* update_news_metrics from the SELECT to the end: the assignments and the
\* commit
UpdateNewsMetricsCommit(r) ==
    LET rr == run[r] IN
    /\ rr.pc = "metrics"
    /\ news' = update_news_metrics(news, rr.post.external_id, rr.loaded,
                                   rr.args.score, rr.args.comment_count)
    /\ run' = [run EXCEPT ![r] = IdleRun]
    /\ UNCHANGED <<call, tree, subscriptions, media, files, nextUid, started, errlog, dl>>

\* a caller outside the runs uses the store through slot r
StoreCall(r) ==
    \/ \E t \in ThreadIds : AddSubscription(r, t)
    \/ \E item \in NewsItems : AddNews(r, item)
    \/ \E e \in Ids, score \in MetricArgs, cc \in MetricArgs :
            UpdateNewsMetricsSelect(r, e, score, cc)
    \/ UpdateNewsMetricsCommit(r)

\* ------------------------------------------------------- specifications
\* the steps of the media phase of run r
StepMedia(r) ==
    \/ SyncPendingMediaStart(r)
    \/ \E n \in ConcurrencyChoices : MediaPending(r, n)
    \/ \E e \in Ids : TaskStart(r, e)
    \/ \E e \in Ids : TaskMediaDirError(r, e)
    \/ \E e \in Ids : TaskOpened(r, e)
    \/ \E e \in Ids : TaskAttemptFailed(r, e)
    \/ \E e \in Ids, size \in OrchestrationSizes : TaskDownloaded(r, e, size)
    \/ \E e \in Ids : TaskReturned(r, e)
    \/ \E e \in Ids, partial \in BOOLEAN : TaskDownloadFailed(r, e, partial)
    \/ \E e \in Ids : TaskAddMedia(r, e)
    \/ \E e \in Ids : TaskUpdateNews(r, e)
    \/ MediaDone(r)

\* the steps of run r; budgets: the max_posts values its sync_all is given
Step(r, budgets) ==
    \/ \E mp \in budgets : SyncAllStart(r, mp)
    \/ \E c \in Candidates : ThreadFetch(r, c)
    \/ ThreadEnd(r)
    \/ ThreadFeedError(r)
    \/ ThreadCommit(r)
    \/ StepMedia(r)

\* runs that may overlap, one subscription at the start, with calls of the
\* store's functions in between
Next == \E r \in Runs : Step(r, Budgets) \/ StoreCall(r)

Spec == Init /\ [][Next]_vars

\* runs executed one after another, two subscriptions
InitSeq ==
    /\ tree \in Trees
    /\ subscriptions = <<"siteA", "siteB">>
    /\ news = <<>>
    /\ media = {}
    /\ files = {}
    /\ nextUid = 1
    /\ run = [r \in Runs |-> IdleRun]
    /\ started = 0
    /\ errlog = {}
    /\ dl = NoDl
    /\ call = NoCall

NextSeq == Step("r1", SeqBudgets) \/ StoreCall("r1")

SpecSeq == InitSeq /\ [][NextSeq]_vars

\* runs executed one after another, two subscriptions, with store failures
NextIso == Step("r1", SeqBudgets) \/ ThreadStoreError("r1")

SpecIso == InitSeq /\ [][NextIso]_vars

\* the ORM tree's sync_all with an item budget: runs executed one after
\* another, two subscriptions, feeds that deliver up to three distinct items
\* without media
BudgetIds == {"p1", "p2", "p3"}

BudgetCandidates == [external_id : BudgetIds, media_url : {Null}, score : {0}]

InitBudget == InitSeq /\ tree = "app"

NextBudget ==
    \/ \E mp \in SeqBudgets : SyncAllStart("r1", mp)
    \/ \E c \in BudgetCandidates : ThreadFetch("r1", c)
    \/ ThreadEnd("r1")
    \/ ThreadFeedError("r1")
    \/ ThreadCommit("r1")
    \/ ThreadStoreError("r1")

SpecBudget == InitBudget /\ [][NextBudget]_vars

\* runs of sync_all, one after another, and calls of the store's functions
\* that may overlap with them and with each other, on a store that earlier
\* runs have filled: p1 was polled with a locator and its media is downloaded or still
\* pending, p2 was polled without a locator
InitRepoll ==
    /\ tree \in Trees
    /\ subscriptions = <<"siteA", "siteB">>
    /\ \E downloaded \in BOOLEAN :
          /\ news = <<[NewRow([external_id |-> "p1", media_url |-> "u1"])
                          EXCEPT !.media_uid = IF downloaded THEN generate_uid(1) ELSE Null],
                      NewRow([external_id |-> "p2", media_url |-> Null])>>
          /\ media = IF downloaded THEN {MediaRow(tree, "p1", generate_uid(1), 1)} ELSE {}
          /\ files = IF downloaded
                     THEN {[uid |-> generate_uid(1), item |-> "p1", complete |-> TRUE]}
                     ELSE {}
          /\ nextUid = IF downloaded THEN 2 ELSE 1
    /\ run = [r \in Runs |-> IdleRun]
    /\ started = 0
    /\ errlog = {}
    /\ dl = NoDl
    /\ call = NoCall

NextRepoll ==
    \/ \E mp \in SeqBudgets : SyncAllStart("r1", mp)
    \/ \E c \in Candidates : ThreadFetch("r1", c)
    \/ ThreadEnd("r1")
    \/ ThreadFeedError("r1")
    \/ ThreadCommit("r1")
    \/ \E r \in Runs : StoreCall(r)

SpecRepoll == InitRepoll /\ [][NextRepoll]_vars

\* media phases (sync_pending_media calls) that may overlap, on a store that
\* holds the rows of two polled items
InitMedia ==
    /\ tree \in Trees
    /\ subscriptions = <<"siteA">>
    /\ \E u1 \in FeedUrls, u2 \in FeedUrls :
            news = <<NewRow([external_id |-> "p1", media_url |-> u1]),
                     NewRow([external_id |-> "p2", media_url |-> u2])>>
    /\ media = {}
    /\ files = {}
    /\ nextUid = 1
    /\ run = [r \in Runs |-> IdleRun]
    /\ started = 0
    /\ errlog = {}
    /\ dl = NoDl
    /\ call = NoCall

NextMedia == \E r \in Runs : StepMedia(r)

SpecMedia == InitMedia /\ [][NextMedia]_vars

\* media phases that may overlap, on a store where p1 was polled with an
\* empty locator (url_overridden_by_dest = '') and p2 with an empty or an
\* ordinary one
InitSkip ==
    /\ tree \in Trees
    /\ subscriptions = <<"siteA">>
    /\ \E u2 \in {"", "u1"} :
            news = <<NewRow([external_id |-> "p1", media_url |-> ""]),
                     NewRow([external_id |-> "p2", media_url |-> u2])>>
    /\ media = {}
    /\ files = {}
    /\ nextUid = 1
    /\ run = [r \in Runs |-> IdleRun]
    /\ started = 0
    /\ errlog = {}
    /\ dl = NoDl
    /\ call = NoCall

NextSkip == \E r \in Runs : StepMedia(r)

SpecSkip == InitSkip /\ [][NextSkip]_vars

\* media phases executed one after another, with persistence steps that throw
NextRetry ==
    \/ StepMedia("r1")
    \/ \E e \in Ids : TaskAddMediaError("r1", e)
    \/ \E e \in Ids : TaskUpdateNewsError("r1", e)

SpecRetry == InitMedia /\ [][NextRetry]_vars

\* the batches of one caller: media phases one after another on the store of
\* two polled items
NextBatch == StepMedia("r1")

SpecBatch == InitMedia /\ [][NextBatch]_vars

\* the event loop resumes every coroutine that can go on, and every download
\* ends (success or exception)
FairSpecBatch == SpecBatch /\ WF_vars(NextBatch)

\* ------------------------------------------------- normalize_media_url
\* A URL is the record of its parts as urlparse gives them: the scheme, the
\* netloc (host), the path as the sequence of its '/'-separated segments,
\* each segment the sequence of its '.'-separated parts ("/a/x.jpg" is
\* <<<<"a">>, <<"x", "jpg">>>>), the keys of its query parameters in order,
\* and enc: the parameters are separated by '&amp;' instead of '&'.
Schemes == {"http", "https"}

Hosts == {"imgur.com", "i.imgur.com", "v.redd.it", "i.redd.it", "preview.redd.it",
          "www.reddit.com", "example.com"}

UrlPaths ==
    {<<<<"x">>>>, <<<<"x", "jpg">>>>, <<<<"x", "mp4">>>>,
     <<<<"a">>, <<"x">>>>, <<<<"media">>, <<"x">>>>}

UrlQueries == {<<>>, <<"s">>, <<"width">>, <<"width", "s">>, <<"s", "width">>}

MkUrl(scheme, host, segs, query, enc) ==
    [scheme |-> scheme, host |-> host, segs |-> segs, query |-> query, enc |-> enc]

\* the URLs a feed reports; enc only where there is a separator to encode
Urls ==
    {MkUrl(sc, h, p, q, e) : sc \in Schemes, h \in Hosts, p \in UrlPaths,
                             q \in UrlQueries, e \in {FALSE}}
    \cup {MkUrl(sc, h, p, q, TRUE) : sc \in Schemes, h \in Hosts, p \in UrlPaths,
                                     q \in {<<"width", "s">>, <<"s", "width">>}}

\* the empty string '' (and None: both are false in 'if not url')
EmptyUrl == MkUrl("", "", <<>>, <<>>, FALSE)

\* needle in parsed.netloc, for the needles of the normalizer
HostContains(host, needle) ==
    CASE needle = "imgur.com" -> host \in {"imgur.com", "i.imgur.com"}
      [] needle = "reddit.com" -> host = "www.reddit.com"
      [] needle = "redd.it" -> host \in {"v.redd.it", "i.redd.it", "preview.redd.it"}
      [] OTHER -> host = needle

\* the last '.'-separated part of the last path segment, "" without one
PathSuffix(segs) ==
    IF segs = <<>> THEN ""
    ELSE LET last == segs[Len(segs)] IN
         IF Len(last) < 2 THEN "" ELSE last[Len(last)]

\* parsed.path.endswith(exts)
PathEndsWith(u, exts) == PathSuffix(u.segs) \in exts

\* url.endswith(exts): the string ends with its query when it has one
UrlEndsWith(u, exts) == u.query = <<>> /\ PathEndsWith(u, exts)

\* '/name/' in parsed.path: a segment name that is followed by another one
PathContains(u, name) ==
    \E i \in 1..(Len(u.segs) - 1) : u.segs[i] = <<name>>

\* parsed.path.split('/')[-1]
LastSegment(u) == IF u.segs = <<>> THEN <<"">> ELSE u.segs[Len(u.segs)]

\* 'width=' in decoded_url
HasWidth(u) == \E i \in DOMAIN u.query : u.query[i] = "width"

ImageExts == {"jpg", "png", "gif"}
MediaExts == {"jpg", "png", "gif", "mp4", "webm", "webp"}

\* f"https://i.imgur.com/{image_id}.jpg" (gallery and single image alike)
ImgurRule(u) ==
    MkUrl("https", "i.imgur.com", <<Append(LastSegment(u), "jpg")>>, <<>>, FALSE)

\* f"https://i.redd.it{parsed.path}"
RawImageRule(u) == MkUrl("https", "i.redd.it", u.segs, <<>>, FALSE)

\* a preview rule that rewrites the host and leaves the query alone
PreviewRule_keepsQuery(u) == MkUrl(u.scheme, "i.redd.it", u.segs, u.query, u.enc)

\* the preview host: decoded_url = url.replace('&amp;', '&'); with 'width='
\* in it the query is cut off (re.sub(r'\?.*$', '', ...)); the host name is
\* replaced, the scheme stays
PreviewRule(u) ==
    MkUrl(u.scheme, "i.redd.it", u.segs, IF HasWidth(u) THEN <<>> ELSE u.query, FALSE)

\* f"https://i.redd.it/{media_id}" with media_id = parsed.path.split('/')[-1]
MediaPathRule(u) == MkUrl("https", "i.redd.it", <<LastSegment(u)>>, <<>>, FALSE)

\* the end of the function: a path with a media extension loses its query,
\* every other URL is returned as it is
TrackingRule(u) ==
    IF PathEndsWith(u, MediaExts)
    THEN MkUrl(u.scheme, u.host, u.segs, <<>>, FALSE)
    ELSE u

\* the block "if 'reddit.com' in parsed.netloc or 'redd.it' in parsed.netloc"
RedditRules(u) ==
    IF HostContains(u.host, "v.redd.it") THEN u
    ELSE IF HostContains(u.host, "i.redd.it") THEN RawImageRule(u)
    ELSE IF HostContains(u.host, "preview.redd.it") THEN PreviewRule(u)
    ELSE IF PathContains(u, "media") THEN MediaPathRule(u)
    ELSE TrackingRule(u)

normalize_media_url(u) ==
    IF u = EmptyUrl THEN EmptyUrl
    ELSE IF HostContains(u.host, "imgur.com") /\ ~UrlEndsWith(u, ImageExts)
    THEN ImgurRule(u)
    ELSE IF HostContains(u.host, "reddit.com") \/ HostContains(u.host, "redd.it")
    THEN RedditRules(u)
    ELSE TrackingRule(u)

\* a caller normalizes a locator, and normalizes the result again
InitUrl ==
    /\ tree \in Trees
    /\ subscriptions = <<"siteA">>
    /\ news = <<>>
    /\ media = {}
    /\ files = {}
    /\ nextUid = 1
    /\ run = [r \in Runs |-> IdleRun]
    /\ started = 0
    /\ errlog = {}
    /\ dl = NoDl
    /\ \E u \in Urls \cup {EmptyUrl} :
          call = [stage |-> "input", url |-> u, once |-> EmptyUrl, twice |-> EmptyUrl]

Normalize ==
    /\ call.stage = "input"
    /\ call' = [call EXCEPT !.stage = "once", !.once = normalize_media_url(call.url)]
    /\ UNCHANGED <<tree, subscriptions, storeVars, run, started, errlog, dl>>

NormalizeAgain ==
    /\ call.stage = "once"
    /\ call' = [call EXCEPT !.stage = "twice", !.twice = normalize_media_url(call.once)]
    /\ UNCHANGED <<tree, subscriptions, storeVars, run, started, errlog, dl>>

NextUrl == Normalize \/ NormalizeAgain

SpecUrl == InitUrl /\ [][NextUrl]_vars

\* --------------------------------------------------- extract_media_url
\* A string attribute of a submission: None, or a string given by its host
\* and the rest of it; "" is the empty string.  Missing stands for a
\* submission that has no such attribute (hasattr is false).
None == [none |-> TRUE, host |-> "", id |-> ""]
Missing == [none |-> TRUE, host |-> "", id |-> "missing"]
HasAttr(l) == l # Missing
Str(host, id) == [none |-> FALSE, host |-> host, id |-> id]
EmptyStr == Str("", "")

\* not value: None and "" are falsy
Falsy(l) == l.none \/ l = EmptyStr

\* value.replace('preview.redd.it', 'i.redd.it')
replace_preview(l) ==
    IF ~l.none /\ l.host = "preview.redd.it" THEN Str("i.redd.it", l.id) ELSE l

\* media_metadata items: 'p' is the list of previews (width x, URL u when the
\* key is there), 's' the source image ('u' missing is None)
Resolution(x, hasU, u) == [x |-> x, hasU |-> hasU, u |-> u]
MetadataItems ==
    { [p |-> <<Resolution(1, TRUE, Str("preview.redd.it", "g1")),
               Resolution(2, TRUE, Str("preview.redd.it", "g2")),
               Resolution(2, TRUE, Str("preview.redd.it", "g3"))>>, s |-> None],
      [p |-> <<Resolution(1, FALSE, None)>>, s |-> Str("preview.redd.it", "gs")],
      [p |-> <<>>, s |-> Str("preview.redd.it", "gs")],
      [p |-> <<>>, s |-> None] }

\* is_gallery with media_metadata: the items in dictionary order; <<>> stands
\* for a submission that is no gallery
Galleries == {<<>>} \cup {<<i>> : i \in MetadataItems}

\* secure_media: rv is "'reddit_video' in secure_media" (FALSE also for None),
\* fb is reddit_video.get('fallback_url')
SecureMedia ==
    { [rv |-> FALSE, fb |-> None], [rv |-> TRUE, fb |-> None],
      [rv |-> TRUE, fb |-> Str("v.redd.it", "v")] }

\* preview: has is "hasattr(preview) and 'images' in preview"; an image
\* carries 'source' or not
Previews ==
    { [has |-> FALSE, images |-> <<>>],
      [has |-> TRUE, images |-> <<>>],
      [has |-> TRUE, images |-> <<[hasSource |-> FALSE, url |-> None]>>],
      [has |-> TRUE, images |-> <<[hasSource |-> TRUE, url |-> Str("preview.redd.it", "pv")]>>] }

OverrideUrls == {Missing, None, EmptyStr, Str("example.com", "o")}
PlainUrls == {Missing, None, EmptyStr, Str("example.com", "u")}

Submissions ==
    [gallery : Galleries, is_video : BOOLEAN, secure_media : SecureMedia,
     preview : Previews, url_overridden_by_dest : OverrideUrls, url : PlainUrls]

\* max(item['p'], key=lambda x: x.get('x', 0)): the first of the widest
Largest(p) ==
    p[CHOOSE i \in DOMAIN p :
        \A j \in DOMAIN p : p[j].x < p[i].x \/ (p[j].x = p[i].x /\ i <= j)]

\* the gallery loop: the value it returns, None when it returns nothing
RECURSIVE gallery_url(_)
gallery_url(items) ==
    IF items = <<>> THEN None
    ELSE LET item == Head(items) IN
         IF item.p # <<>>
         THEN IF Largest(item.p).hasU
              THEN replace_preview(Largest(item.p).u)
              ELSE gallery_url(Tail(items))
         ELSE IF ~Falsy(item.s) THEN replace_preview(item.s)
              ELSE gallery_url(Tail(items))

\* the direct-link branch, which is all of extract_media_url in the raw-SQL
\* tree: url_overridden_by_dest when the attribute is there (whatever its
\* value, None included), else url when that attribute is there, else None
direct_url(s) ==
    IF HasAttr(s.url_overridden_by_dest) THEN s.url_overridden_by_dest
    ELSE IF HasAttr(s.url) THEN s.url
    ELSE None

\* extract_media_url: each branch returns whatever it finds, empty or not;
\* preview['images'][0] of an empty list raises and the handler returns None
extract_media_url(t, s) ==
    IF t = "src" THEN direct_url(s)
    ELSE IF ~gallery_url(s.gallery).none THEN gallery_url(s.gallery)
    ELSE IF s.is_video /\ s.secure_media.rv THEN s.secure_media.fb
    ELSE IF s.preview.has /\ s.preview.images = <<>> THEN None
    ELSE IF s.preview.has /\ s.preview.images[1].hasSource
         THEN replace_preview(s.preview.images[1].url)
    ELSE direct_url(s)

InitExtract ==
    /\ tree \in Trees
    /\ subscriptions = <<"siteA">>
    /\ news = <<>>
    /\ media = {}
    /\ files = {}
    /\ nextUid = 1
    /\ run = [r \in Runs |-> IdleRun]
    /\ started = 0
    /\ errlog = {}
    /\ dl = NoDl
    /\ \E s \in Submissions :
          call = [stage |-> "submission", submission |-> s, media_url |-> None]

\* submission_to_dict evaluates 'media_url': extract_media_url(submission)
Extract ==
    /\ call.stage = "submission"
    /\ call' = [call EXCEPT !.stage = "extracted",
                            !.media_url = extract_media_url(tree, call.submission)]
    /\ UNCHANGED <<tree, subscriptions, storeVars, run, started, errlog, dl>>

NextExtract == Extract

SpecExtract == InitExtract /\ [][NextExtract]_vars

\* ------------------------------- download_file on a text/html response
\* The first 1024 bytes of the html body a media server sends, as the meta
\* tags they hold, in the order of the text: key is the tag's property / name,
\* content the value of its content="..." attribute, "" when the tag has no
\* such attribute or an empty one.
MetaTags ==
    { [key |-> "viewport", content |-> "width=device-width"],
      [key |-> "og:title", content |-> ""],
      [key |-> "og:image:width", content |-> "1200"],
      [key |-> "og:image", content |-> "https://i.redd.it/a.jpg"],
      [key |-> "og:image", content |-> ""],
      [key |-> "twitter:image", content |-> "https://i.redd.it/b.jpg"] }

RECURSIVE SeqsUpTo(_, _)
SeqsUpTo(S, n) ==
    IF n = 0 THEN {<<>>}
    ELSE SeqsUpTo(S, n - 1) \cup
         {Append(q, x) : q \in {p \in SeqsUpTo(S, n - 1) : Len(p) = n - 1}, x \in S}

Prefixes == SeqsUpTo(MetaTags, MaxTags)

\* one attempt of download_file on a 200 text/html response whose declared
\* length is below the limit: content_preview = await response.aread(1024)
\* raises TypeError (Response.aread of httpx takes no argument) whatever the
\* body holds; nothing is re-fetched
HtmlAttempt(prefix) == [outcome |-> "TypeError", url |-> ""]

\* the response has arrived; its body has not been read
InitScan ==
    /\ tree \in Trees
    /\ subscriptions = <<"siteA">>
    /\ news = <<>>
    /\ media = {}
    /\ files = {}
    /\ nextUid = 1
    /\ run = [r \in Runs |-> IdleRun]
    /\ started = 0
    /\ errlog = {}
    /\ dl = NoDl
    /\ \E p \in Prefixes :
          call = [stage |-> "html", prefix |-> p, result |-> [outcome |-> "none", url |-> ""]]

\* download_file handles the response
Scan ==
    /\ call.stage = "html"
    /\ call' = [call EXCEPT !.stage = "scanned", !.result = HtmlAttempt(call.prefix)]
    /\ UNCHANGED <<tree, subscriptions, storeVars, run, started, errlog, dl>>

NextScan == Scan

SpecScan == InitScan /\ [][NextScan]_vars

\* ---------------------------------------------------------- download_many
\* One download_many(urls, max_concurrent=n) call whose generator is
\* iterated to its end.  call.st is the state of every download_one task,
\* call.uid the name of the file its download_file has open, call.result
\* what its download_media returned ("None", or the uid_filename of the
\* metadata) or "raised" when it raised, call.completed the tasks in the
\* order they ended, call.yielded the pairs the generator has yielded,
\* call.raised whether the generator has raised to its consumer.
ManyUrls == [1..MaxUrls -> {"", "u1", "u2"}]

InitMany ==
    /\ tree \in Trees
    /\ subscriptions = <<"siteA">>
    /\ news = <<>>
    /\ media = {}
    /\ files = {}
    /\ nextUid = 1
    /\ run = [r \in Runs |-> IdleRun]
    /\ started = 0
    /\ errlog = {}
    /\ dl = NoDl
    /\ \E urls \in ManyUrls, n \in ConcurrencyChoices :
          call = [stage |-> "many", urls |-> urls, max_concurrent |-> n,
                  st |-> [i \in 1..MaxUrls |-> "new"],
                  uid |-> [i \in 1..MaxUrls |-> Null],
                  result |-> [i \in 1..MaxUrls |-> "pending"],
                  completed |-> <<>>, yielded |-> <<>>, raised |-> FALSE]

\* download_one has ended: it returned (url, result), or it raised
Completed(c, i, result) ==
    [c EXCEPT !.st[i] = "done", !.uid[i] = Null, !.result[i] = result,
              !.completed = Append(@, i)]

\* the download_one tasks that hold the semaphore
ManyInFlight(c) ==
    {j \in 1..MaxUrls : c.st[j] \in {"inflight", "streaming", "closing"}}

\* download_one -> download_media up to the semaphore: an empty normalized
\* URL returns None at once; for another one ensure_media_dir finds or makes
\* the directory and the task waits for a slot
ManyStart(i) ==
    /\ call.stage = "many"
    /\ call.st[i] = "new"
    /\ IF NormalizedEmpty(call.urls[i])
       THEN call' = Completed(call, i, "None")
       ELSE /\ Cardinality(ManyInFlight(call)) < call.max_concurrent
            /\ call' = [call EXCEPT !.st[i] = "inflight"]
    /\ UNCHANGED <<tree, subscriptions, storeVars, run, started, errlog, dl>>

\* ensure_media_dir raises (the directory is not there and cannot be made):
\* the call stands before the try of download_media, so the exception
\* leaves download_media and download_one
ManyMediaDirError(i) ==
    /\ call.stage = "many"
    /\ call.st[i] = "new"
    /\ ~NormalizedEmpty(call.urls[i])
    /\ call' = Completed(call, i, "raised")
    /\ UNCHANGED <<tree, subscriptions, storeVars, run, started, errlog, dl>>

\* an attempt of download_file comes to aiofiles.open: the file is there and
\* the body is written to it chunk by chunk
ManyOpened(i) ==
    LET uid == generate_uid(nextUid) IN
    /\ call.stage = "many"
    /\ call.st[i] = "inflight"
    /\ nextUid <= MaxUid
    /\ nextUid' = nextUid + 1
    /\ files' = files \cup {FileOf(uid, call.urls[i], FALSE)}
    /\ call' = [call EXCEPT !.st[i] = "streaming", !.uid[i] = uid]
    /\ UNCHANGED <<tree, subscriptions, news, media, run, started, errlog, dl>>

\* an attempt of download_file fails while it streams the body and is
\* retried: the file it opened stays in the directory as it is
ManyAttemptFailed(i) ==
    /\ call.stage = "many"
    /\ call.st[i] = "streaming"
    /\ call' = [call EXCEPT !.st[i] = "inflight", !.uid[i] = Null]
    /\ UNCHANGED <<tree, subscriptions, storeVars, run, started, errlog, dl>>

\* the body has been written to its end: the file is complete and
\* download_file returns its metadata; leaving async with semaphore,
\* http_client() awaits client.aclose() first
ManyDownloaded(i) ==
    LET uid == call.uid[i] IN
    /\ call.stage = "many"
    /\ call.st[i] = "streaming"
    /\ files' = (files \ {FileOf(uid, call.urls[i], FALSE)})
                    \cup {FileOf(uid, call.urls[i], TRUE)}
    /\ call' = [call EXCEPT !.st[i] = "closing"]
    /\ UNCHANGED <<tree, subscriptions, news, media, nextUid, run, started, errlog, dl>>

\* the client is closed, the semaphore is released, download_media returns
\* the metadata and download_one returns (url, result)
ManyReturned(i) ==
    /\ call.stage = "many"
    /\ call.st[i] = "closing"
    /\ call' = Completed(call, i, call.uid[i])
    /\ UNCHANGED <<tree, subscriptions, storeVars, run, started, errlog, dl>>

\* the last attempt of download_file raised: download_media logs and returns
\* None; an attempt that fails while streaming (partial) leaves its file
ManyFailed(i, partial) ==
    /\ call.stage = "many"
    /\ call.st[i] = (IF partial THEN "streaming" ELSE "inflight")
    /\ call' = Completed(call, i, "None")
    /\ UNCHANGED <<tree, subscriptions, storeVars, run, started, errlog, dl>>

\* for task in asyncio.as_completed(tasks): the task whose result the next
\* awaitable gives is the next one in the order of completion
NextYielded(c) == c.completed[Len(c.yielded) + 1]

\* yield await task: the pair of the task, or, for a task that raised, its
\* exception: it ends the generator and reaches the consumer
ManyYield ==
    /\ call.stage = "many"
    /\ ~call.raised
    /\ Len(call.yielded) < Len(call.completed)
    /\ call' = IF call.result[NextYielded(call)] = "raised"
               THEN [call EXCEPT !.raised = TRUE]
               ELSE [call EXCEPT !.yielded =
                        Append(@, <<call.urls[NextYielded(call)],
                                    call.result[NextYielded(call)]>>)]
    /\ UNCHANGED <<tree, subscriptions, storeVars, run, started, errlog, dl>>

NextMany ==
    \/ \E i \in 1..MaxUrls : ManyStart(i)
    \/ \E i \in 1..MaxUrls : ManyMediaDirError(i)
    \/ \E i \in 1..MaxUrls : ManyOpened(i)
    \/ \E i \in 1..MaxUrls : ManyAttemptFailed(i)
    \/ \E i \in 1..MaxUrls : ManyDownloaded(i)
    \/ \E i \in 1..MaxUrls : ManyReturned(i)
    \/ \E i \in 1..MaxUrls, partial \in BOOLEAN : ManyFailed(i, partial)
    \/ ManyYield

SpecMany == InitMany /\ [][NextMany]_vars

\* ------------------------------------------------- the size limit in use
\* max_size: int = 50 * 1024 * 1024, the default of download_media
DefaultMaxSize == 50 * 1024 * 1024

\* MAX_MEDIA_SIZE values of the configuration, and content-length values of
\* a response, in bytes
MiB == 1024 * 1024
ConfiguredSizes == {1, MiB, 10 * MiB, DefaultMaxSize, 51 * MiB, 100 * MiB}
ContentLengths == {0, 1, 2, MiB, MiB + 1, 10 * MiB, 10 * MiB + 1,
                   DefaultMaxSize, DefaultMaxSize + 1, 100 * MiB, 100 * MiB + 1}

\* sync_media_item calls md.download_media(item['media_url'],
\* media_dir=media_dir, semaphore=semaphore): max_size is not passed, the
\* limit handed to download_file is the default whatever is configured
LimitInUse(max_media_size) == DefaultMaxSize

\* a media phase under a configuration, downloading a response with a
\* declared content-length
InitLimit ==
    /\ tree \in Trees
    /\ subscriptions = <<"siteA">>
    /\ news = <<>>
    /\ media = {}
    /\ files = {}
    /\ nextUid = 1
    /\ run = [r \in Runs |-> IdleRun]
    /\ started = 0
    /\ errlog = {}
    /\ dl = NoDl
    /\ \E m \in ConfiguredSizes, size \in ContentLengths :
          call = [stage |-> "configured", max_media_size |-> m, size |-> size,
                  max_size |-> 0, outcome |-> "none"]

\* sync_media_item -> download_media -> download_file(client, url, media_path, max_size)
PassLimit ==
    /\ call.stage = "configured"
    /\ call' = [call EXCEPT !.stage = "called", !.max_size = LimitInUse(call.max_media_size)]
    /\ UNCHANGED <<tree, subscriptions, storeVars, run, started, errlog, dl>>

\* if size > max_size: raise ValueError(f"File too large: {size} bytes")
CheckSize ==
    /\ call.stage = "called"
    /\ call' = [call EXCEPT !.stage = "checked",
                            !.outcome = IF call.size > call.max_size
                                        THEN "too large" ELSE "accepted"]
    /\ UNCHANGED <<tree, subscriptions, storeVars, run, started, errlog, dl>>

NextLimit == PassLimit \/ CheckSize

SpecLimit == InitLimit /\ [][NextLimit]_vars

\* ------------------------------------------------------ main: the scheduler
\* BackgroundScheduler with the jobs "onstart" (DateTrigger, fires once) and
\* "sync_news" (IntervalTrigger), each max_instances=1, run by the
\* scheduler's thread pool.  call.started counts the sync_news_task runs
\* that were started, call.skipped the interval firings that were dropped
\* because the job's one instance was still running.
SchedulerIdle ==
    [stage |-> "scheduler", onstart |-> "due", sync_news |-> "idle",
     started |-> 0, skipped |-> 0]

\* max_instances=1
MaxInstances == 1

\* instances of a job that are running
Instances(state) == IF state = "running" THEN 1 ELSE 0

InitSched ==
    /\ tree = "app"
    /\ subscriptions = <<"siteA">>
    /\ news = <<>>
    /\ media = {}
    /\ files = {}
    /\ nextUid = 1
    /\ run = [r \in Runs |-> IdleRun]
    /\ started = 0
    /\ errlog = {}
    /\ dl = NoDl
    /\ call = SchedulerIdle

\* args=[sync_news_task, 5]: the max_posts of every scheduled run
TaskMaxPosts == 5

\* the run slot of a job's one instance
JobRun(job) == IF job = "onstart" THEN "r1" ELSE "r2"

\* run_async_task -> sync_news_task(5) -> sync_all(max_posts=5): the run
\* enters its polling loop
TaskStarted(rs, job) ==
    [rs EXCEPT ![JobRun(job)] =
        LoopHead(tree, subscriptions,
                 [IdleRun EXCEPT !.max_posts = TaskMaxPosts, !.subIdx = 1,
                                 !.subs = subscriptions])]

\* the run date of "onstart" is reached: the job has no running instance,
\* run_async_task(sync_news_task, 5) is submitted to the pool
OnstartFire ==
    /\ call.stage = "scheduler"
    /\ call.onstart = "due"
    /\ Instances(call.onstart) < MaxInstances
    /\ call.started < MaxOps
    /\ call' = [call EXCEPT !.onstart = "running", !.started = @ + 1]
    /\ run' = TaskStarted(run, "onstart")
    /\ UNCHANGED <<tree, subscriptions, storeVars, started, errlog, dl>>

\* sync_all of the "onstart" run has returned: loop.run_until_complete
\* returns, the loop is closed; a DateTrigger job is removed after its run
OnstartEnd ==
    /\ call.stage = "scheduler"
    /\ call.onstart = "running"
    /\ run[JobRun("onstart")].pc = "idle"
    /\ call' = [call EXCEPT !.onstart = "done"]
    /\ UNCHANGED <<tree, subscriptions, storeVars, run, started, errlog, dl>>

\* an interval of "sync_news" has passed: the run is submitted when the job
\* has fewer than max_instances running instances, and skipped otherwise;
\* the instances of other jobs are not counted
IntervalFire ==
    /\ call.stage = "scheduler"
    /\ IF Instances(call.sync_news) < MaxInstances
       THEN /\ call.started < MaxOps
            /\ call' = [call EXCEPT !.sync_news = "running", !.started = @ + 1]
            /\ run' = TaskStarted(run, "sync_news")
       ELSE /\ call.skipped < MaxOps
            /\ call' = [call EXCEPT !.skipped = @ + 1]
            /\ UNCHANGED run
    /\ UNCHANGED <<tree, subscriptions, storeVars, started, errlog, dl>>

\* sync_all of the "sync_news" run has returned: the instance ends
IntervalEnd ==
    /\ call.stage = "scheduler"
    /\ call.sync_news = "running"
    /\ run[JobRun("sync_news")].pc = "idle"
    /\ call' = [call EXCEPT !.sync_news = "idle"]
    /\ UNCHANGED <<tree, subscriptions, storeVars, run, started, errlog, dl>>

\* the steps of sync_all inside a running instance
TaskStep(r) ==
    \/ \E c \in Candidates : ThreadFetch(r, c)
    \/ ThreadEnd(r)
    \/ ThreadFeedError(r)
    \/ ThreadCommit(r)

NextSched ==
    \/ OnstartFire
    \/ OnstartEnd
    \/ IntervalFire
    \/ IntervalEnd
    \/ \E r \in Runs : TaskStep(r)

SpecSched == InitSched /\ [][NextSched]_vars

\* ------------------------------------------------------------------ claims
IntegrityErrors == {l \in errlog : l.kind = "integrity"}

\* C1: over runs executed one after another, with any feed responses, the
\* store never holds two news rows with the same external id, and a poll of
\* an id that is already stored attempts no insert: no unique-key conflict
\* is ever raised.
C1_Dedup ==
    /\ \A e \in Ids : Cardinality(RowsOf(news, e)) <= 1
    /\ IntegrityErrors = {}

\* C1 witness: the second run has polled an item and committed without
\* inserting it: the id was stored by the first run.
C1_Witness ==
    /\ tree = "app"
    /\ started = 2
    /\ run["r1"].pc = "thread"
    /\ run["r1"].subIdx = 1
    /\ run["r1"].fetched = 1
    /\ run["r1"].processed = 0
    /\ Len(news) = 1

\* C2: when a run writes the row of an id it found missing and another run
\* has stored that id in between, the write is a no-op: the table is left as
\* it is, no error is logged, and sync_thread goes on with the next item of
\* the subscription.
C2_LosingInsertIsNoOp ==
    [][\A r \in Runs :
        (/\ run[r].pc = "commit"
         /\ ~run[r].existing
         /\ RowsOf(news, run[r].post.external_id) # {}
         /\ run'[r] # run[r])
        => (/\ news' = news
            /\ errlog' = errlog
            /\ run'[r].pc = "thread"
            /\ run'[r].subIdx = run[r].subIdx
            /\ run'[r].fetched = run[r].fetched)]_vars

\* C3: once a news row's media_uid is set, no step clears it or changes it.
C3_MediaRefNeverReassigned ==
    [][\A i \in DOMAIN news :
        news[i].media_uid # Null
        => (i \in DOMAIN news' /\ news'[i].media_uid = news[i].media_uid)]_vars

\* the media files written completely for item e
CompleteFiles(e) == {f \in files : f.item = e /\ f.complete}

\* C4: over all runs, overlapping ones included, at most one media file is
\* ever fetched successfully for an item.
C4_FetchedAtMostOnce ==
    \A e \in Ids : Cardinality(CompleteFiles(e)) <= 1

\* C5: no media row is ever stored whose size_bytes exceeds the size limit
\* given to the downloader, whatever the media server declares and sends.
C5_SizeBound ==
    \A m \in media : m.size_bytes <= MaxSize

\* C6: when the download has ended, the media directory holds exactly one
\* new file if it succeeded and no new file if it failed.
C6_OneFileOrNone ==
    /\ dl.pc \in {"returned", "added", "stored", "logged"} => Cardinality(files) = 1
    /\ dl.pc \in {"failed", "nodir"} => files = {}

\* the body of the response is an html loader page: it has a document marker
LoaderPage(resp) ==
    resp.kind = "ok" /\ ~TooLarge(resp) /\ IsHtml(resp) /\ resp.prefix # "plain"

\* a loader page that embeds an image URL in a meta tag
LoaderWithImage(resp) == LoaderPage(resp) /\ resp.prefix = "docimg"

\* the responses the claim calls fatal: a declared content-length above the
\* limit, a loader page that embeds no image URL
Fatal(resp) ==
    resp.kind = "ok" /\ (TooLarge(resp) \/ (LoaderPage(resp) /\ resp.prefix = "doc"))

\* C7: no attempt is started as the retry of an attempt that failed with a
\* declared content-length above the limit or with a loader page that embeds
\* no image URL.
C7_FatalNotRetried ==
    [][(dl.pc = "request" /\ dl.err # "none" /\ dl'.pc = "response")
        => ~Fatal(dl.resp)]_vars

\* C8: one download_media invocation makes at most 3 attempts in total, the
\* requests that follow a loader page included.
C8_AtMostThreeAttempts ==
    dl.tries <= MaxAttempts

\* C8 witness: the download has failed with its third attempt, every one of
\* which was answered; the last answer was a loader page without an image URL.
C8_Witness ==
    /\ dl.pc = "failed"
    /\ dl.tries = MaxAttempts
    /\ dl.err = "typeerror"
    /\ LoaderPage(dl.resp)
    /\ dl.resp.prefix = "doc"

\* C9: download_file never has more than two frames active: following
\* loader pages, its recursion depth is at most 1.
C9_DepthAtMostOne ==
    Len(dl.stack) <= 2

\* C9 witness: the first attempt was answered with a loader page that embeds
\* an image URL; download_file has left it and begins its second attempt in
\* the same frame.
C9_Witness ==
    /\ dl.pc = "request"
    /\ dl.err = "typeerror"
    /\ LoaderWithImage(dl.resp)
    /\ dl.stack = <<2>>

Downloading(r) ==
    {e \in DOMAIN run[r].tasks :
        run[r].tasks[e].st \in {"inflight", "streaming", "closing"}}

\* C11: during a media phase with limit N (max_concurrent), at no instant are
\* more than N of its downloader invocations inside download_file.
C11_BoundedConcurrency ==
    \A r \in Runs :
        run[r].pc = "gather" => Cardinality(Downloading(r)) <= run[r].max_concurrent

\* C11 witness: limit 1, two pending items: one is downloading and the other
\* waits for the semaphore.
C11_Witness ==
    \E r \in Runs :
        /\ run[r].pc = "gather"
        /\ run[r].max_concurrent = 1
        /\ DOMAIN run[r].tasks = Ids
        /\ run[r].tasks["p1"].st = "streaming"
        /\ run[r].tasks["p2"].st = "new"
        /\ ~NormalizedEmpty(run[r].tasks["p2"].url)

\* the download of item e in run r's media phase has failed: download_media
\* returned None for a URL it had to fetch, or raised
Failed(r, e) ==
    /\ run[r].pc = "gather"
    /\ e \in DOMAIN run[r].tasks
    /\ run[r].tasks[e].st \in EndStates
    /\ run[r].tasks[e].uid = Null
    /\ ~NormalizedEmpty(run[r].tasks[e].url)

\* the task of item e in run r's media phase has reached its outcome
Ended(r, e) ==
    /\ run[r].pc = "gather"
    /\ e \in DOMAIN run[r].tasks
    /\ run[r].tasks[e].st \in EndStates

\* C12: in a media phase the failure of one item's download changes nothing
\* in the other items' tasks (none is cancelled), and every other item of the
\* batch still reaches its own outcome.
C12_FailureIsolated ==
    /\ [][\A r \in Runs, f \in Ids : \A e \in Ids \ {f} :
            (~Failed(r, f) /\ Failed(r, f)' /\ e \in DOMAIN run[r].tasks)
                => run'[r].tasks[e] = run[r].tasks[e]]_vars
    /\ \A r \in Runs, f \in Ids : \A e \in Ids \ {f} :
            (Failed(r, f) /\ e \in DOMAIN run[r].tasks) ~> Ended(r, e)

\* C12 witness: limit 1; the download of p1 failed (it left the file f1) and
\* the download of p2, begun after it, succeeded with the file f2.
C12_Witness ==
    \E r \in Runs :
        /\ Failed(r, "p1")
        /\ run[r].max_concurrent = 1
        /\ [uid |-> "f1", item |-> "p1", complete |-> FALSE] \in files
        /\ Ended(r, "p2")
        /\ run[r].tasks["p2"].uid = "f2"

\* the sync of run r's current subscription fails in this step
SubscriptionFails(r) ==
    \/ ThreadFeedError(r)
    \/ ThreadStoreError(r)
    \/ ThreadCommit(r) /\ errlog' # errlog

\* C13: when the sync of a subscription fails (its poll throws or a write
\* for one of its items throws), sync_all does not end there: it goes on to
\* poll the next subscription of the listing, and after the last one it
\* leaves the loop as it does without a failure.
C13_FailureIsolation ==
    [][\A r \in Runs :
        (SubscriptionFails(r) /\ run'[r] # run[r])
        => IF run[r].subIdx < Len(run[r].subs)
           THEN /\ run'[r].pc = "thread"
                /\ run'[r].subIdx = run[r].subIdx + 1
                /\ run'[r].fetched = 0
                /\ run'[r].total = run[r].total
           ELSE run'[r] = AfterPolling(tree)]_vars

\* C13 witness: in the first run a write for siteA's item threw, and the run
\* has polled siteB and stored an item of it.
C13_Witness ==
    /\ tree = "app"
    /\ started = 1
    /\ errlog = {[sub |-> "siteA", kind |-> "store"]}
    /\ run["r1"].pc = "thread"
    /\ run["r1"].subIdx = 2
    /\ run["r1"].processed = 1
    /\ Len(news) = 1

\* C14: a run never returns with pending items it has not handed to the
\* download phase: it returns from its media phase (every task of the items
\* that were pending has ended), or from the polling loop only when no stored
\* item is pending (media locator present, media reference unset).
C14_PendingHandedOver ==
    [][\A r \in Runs :
        (run[r].pc \notin {"idle", "metrics"} /\ run'[r].pc = "idle")
        => \/ /\ run[r].pc = "gather"
              /\ \A e \in DOMAIN run[r].tasks : run[r].tasks[e].st \in EndStates
           \/ get_pending_media(news') = {}]_vars

\* C15: a run with an item budget M >= 1 never inserts more than M items
\* (stated of the first run, whose inserts are all the rows of the table).
C15_BudgetBound ==
    \A r \in Runs :
        (started = 1 /\ run[r].pc # "idle" /\ run[r].max_posts >= 1)
            => Len(news) <= run[r].max_posts

\* C16: the uid_filename values of the stored media rows are pairwise
\* distinct, and no file path of the media directory is written by two
\* downloads.
C16_UidsDistinct ==
    /\ \A m1 \in media, m2 \in media : m1 # m2 => m1.uid_filename # m2.uid_filename
    /\ \A f1 \in files, f2 \in files : f1 # f2 => f1.uid # f2.uid

\* C16 witness: two downloads of one media phase are in flight together, one
\* has written its file and stored its row, and then the other has.
C16_Witness ==
    /\ Cardinality(media) = 2
    /\ Cardinality(files) = 2
    /\ \E r \in Runs :
          /\ run[r].pc = "gather"
          /\ run[r].max_concurrent = 2
          /\ DOMAIN run[r].tasks = Ids
          /\ \A e \in Ids : run[r].tasks[e].st = "added"

\* the items whose media reference is set (MEDIA_READY)
Ready(rows) ==
    {rows[i].external_id : i \in {j \in DOMAIN rows : rows[j].media_uid # Null}}

\* the items with a locator and no media reference (PENDING_MEDIA), read off
\* the rows
PendingState(rows) ==
    {rows[i].external_id : i \in {j \in DOMAIN rows :
        rows[j].media_url # Null /\ rows[j].media_uid = Null}}

\* C17: an item whose media reference is set keeps a media reference and is
\* never pending again, and a media phase that reads the pending items after
\* that starts no download task for it.
C17_ReadyIsOneWay ==
    [][/\ Ready(news) \subseteq Ready(news')
       /\ PendingState(news') \cap Ready(news) = {}
       /\ \A r \in Runs :
            (run[r].pc = "pending" /\ run'[r].pc = "gather")
                => DOMAIN run'[r].tasks \cap Ready(news) = {}]_vars

\* C17 witness: a media phase that began after p1's reference was set has
\* read the pending items: it holds a task for p2 only.
C17_Witness ==
    \E r \in Runs :
        /\ run[r].pc = "gather"
        /\ DOMAIN run[r].tasks = {"p2"}
        /\ Ready(news) = {"p1"}
        /\ news[1].media_url # Null

\* the row i of table news is at rest in NO_MEDIA: no locator, no media
\* reference, not pending, no download task, no file and no media row
NoMediaAtRest(i) ==
    LET e == news[i].external_id IN
    /\ news[i].media_url = Null
    /\ news[i].media_uid = Null
    /\ e \notin get_pending_media(news)
    /\ \A r \in Runs : e \notin DOMAIN run[r].tasks
    /\ \A f \in files : f.item # e
    /\ \A m \in media : m.news_external_id # e

\* C18: a news row stored without a media locator stays without one over
\* every step (re-polls included) and is never pending, never downloaded and
\* never given a media reference, a file or a media row.
C18_NoMediaTerminal ==
    [][\A i \in DOMAIN news :
        news[i].media_url = Null => (NoMediaAtRest(i) /\ NoMediaAtRest(i)')]_vars

\* C18 witness: the ORM tree polled p1 without a locator twice in one run:
\* the first poll inserted the row, the second updated it.
C18_Witness ==
    /\ tree = "app"
    /\ Len(news) = 1
    /\ news[1].media_url = Null
    /\ \E r \in Runs :
          /\ run[r].pc = "thread"
          /\ run[r].fetched = 2
          /\ run[r].processed = 1
    /\ started = 1

\* run r's sync_thread writes the polled candidate in this step and goes on
\* with the next post
Processes(r) ==
    /\ ThreadCommit(r)
    /\ run'[r].pc = "thread"
    /\ run'[r].fetched = run[r].fetched

\* C19: after sync_thread has processed a polled candidate, the score of the
\* stored row is the score the feed reported for it in this poll, on the
\* first insert and on a re-poll.
C19_StoredScoreIsFeedScore ==
    [][\A r \in Runs :
        Processes(r)
        => \A i \in RowsOf(news', run[r].post.external_id) :
                news'[i].score = run[r].reported]_vars

\* sync_media_item of run r stores the media row of item e's finished
\* download in this step
DownloadSucceeds(r, e) ==
    /\ run[r].pc = "gather"
    /\ e \in DOMAIN run[r].tasks
    /\ run[r].tasks[e].st = "downloaded"
    /\ run'[r].tasks[e].st # "downloaded"
    /\ [uid |-> run[r].tasks[e].uid, item |-> e, complete |-> TRUE] \in files

\* C20: when the media row of a finished download conflicts with a stored
\* one (the same item's row, stored by a concurrent run), add_media leaves
\* the media table as it is and sync_media_item goes on as after an insert:
\* the item is not failed.
C20_MediaConflictAbsorbed ==
    [][\A r \in Runs, e \in Ids :
        (/\ DownloadSucceeds(r, e)
         /\ MediaConflict(tree, media,
                          MediaRow(tree, e, run[r].tasks[e].uid, run[r].tasks[e].size)))
        => /\ media' = media
           /\ run'[r].tasks[e].st = "added"
           /\ run'[r].tasks[e].uid = run[r].tasks[e].uid]_vars

\* C20 witness: two overlapping media phases of the ORM tree downloaded p1;
\* the first stored its media row, the second hit the conflict and goes on.
C20_Witness ==
    /\ tree = "app"
    /\ Cardinality(media) = 1
    /\ \E m \in media : m.news_external_id = "p1" /\ m.uid_filename = "f1"
    /\ \E r \in Runs :
          /\ run[r].pc = "gather"
          /\ "p1" \in DOMAIN run[r].tasks
          /\ run[r].tasks["p1"].st = "added"
          /\ run[r].tasks["p1"].uid = "f2"

\* C21: normalizing the result of normalize_media_url again gives the same
\* URL, for every URL of every rule class.
C21_NormalizeIdempotent ==
    call.stage = "twice" => call.twice = call.once

\* C22: a URL of the preview host normalizes to the raw-image host with the
\* same path, with '&amp;' decoded, and with no query exactly when it has a
\* width parameter (otherwise the parameters stay); in particular
\* https://preview.redd.it/x?width=100 gives https://i.redd.it/x.
C22_PreviewRule ==
    (call.stage \in {"once", "twice"} /\ call.url.host = "preview.redd.it")
    => /\ call.once.host = "i.redd.it"
       /\ call.once.segs = call.url.segs
       /\ call.once.enc = FALSE
       /\ call.once.query =
            IF \E i \in DOMAIN call.url.query : call.url.query[i] = "width"
            THEN <<>> ELSE call.url.query
       /\ call.url = MkUrl("https", "preview.redd.it", <<<<"x">>>>, <<"width">>, FALSE)
            => call.once = MkUrl("https", "i.redd.it", <<<<"x">>>>, <<>>, FALSE)

\* C22 witness: an encoded preview URL with a width parameter was normalized.
C22_Witness ==
    /\ call.stage = "once"
    /\ call.url = MkUrl("https", "preview.redd.it", <<<<"x", "jpg">>>>, <<"width", "s">>, TRUE)
    /\ call.once = MkUrl("https", "i.redd.it", <<<<"x", "jpg">>>>, <<>>, FALSE)

\* C30: a URL whose path has a "/media/" segment and whose host is none of
\* the gallery host (without image suffix), the raw-video host, the raw-image
\* host and the preview host normalizes to https://i.redd.it/<trailing
\* segment>, whatever its host is.
C30_MediaPathAnyHost ==
    (/\ call.stage \in {"once", "twice"}
     /\ call.url # EmptyUrl
     /\ PathContains(call.url, "media")
     /\ ~(HostContains(call.url.host, "imgur.com") /\ ~UrlEndsWith(call.url, ImageExts))
     /\ call.url.host \notin {"v.redd.it", "i.redd.it", "preview.redd.it"})
    => call.once = MkUrl("https", "i.redd.it", <<LastSegment(call.url)>>, <<>>, FALSE)

\* the candidates of a submission in the documented order: gallery metadata,
\* video fallback URL, preview image source, override URL, plain URL
LocatorCandidates(s) ==
    << gallery_url(s.gallery),
       IF s.is_video /\ s.secure_media.rv THEN s.secure_media.fb ELSE None,
       IF s.preview.has /\ s.preview.images # <<>> /\ s.preview.images[1].hasSource
       THEN replace_preview(s.preview.images[1].url) ELSE None,
       s.url_overridden_by_dest,
       s.url >>

\* C23: the extracted locator is the first non-empty candidate in the order
\* gallery, video fallback, preview source, override URL, plain URL; an empty
\* or missing candidate is passed over, and there is no locator only when all
\* candidates are empty.
C23_FirstNonEmptyCandidate ==
    call.stage = "extracted" =>
        LET c == LocatorCandidates(call.submission)
            full == {i \in DOMAIN c : ~Falsy(c[i])}
        IN IF full = {} THEN Falsy(call.media_url)
           ELSE call.media_url = c[CHOOSE i \in full : \A j \in full : i <= j]

\* C24: when the first response of a download is an HTML loader page whose
\* image meta tag gives a URL, download_file goes on without an exception to
\* the one recursive re-fetch of that URL (a second frame on its first
\* attempt), and a download that was answered so never ends in failure
\* without another request.
C24_LoaderPageResolved ==
    [][(dl.pc = "response" /\ dl.tries = 1 /\ LoaderWithImage(dl.resp)
            /\ dl'.pc # "response")
        => /\ dl'.pc = "request"
           /\ dl'.err = "none"
           /\ dl'.stack = <<1, 1>>]_vars

\* logger.info(f"Total sync completed: {total_processed} posts processed"),
\* for the step with which run r leaves the polling loop: sync_thread's
\* count is added when sync_thread returned, not when it raised
ReportedTotal(r) ==
    run[r].total + (IF ThreadEnd(r) THEN run[r].processed ELSE 0)

\* C25: when a run of sync_all ends, the count it reports is the number of
\* rows it has inserted, also when subscriptions failed after inserting
\* (stated of the first run, whose inserts are all the rows of the table).
C25_ReportCountsInserts ==
    [][\A r \in Runs :
        (/\ started = 1
         /\ tree = "app"
         /\ run[r].pc # "idle"
         /\ run'[r].pc = "idle")
        => ReportedTotal(r) = Len(news')]_vars

\* C26: when sync_thread writes a candidate whose id was found stored, no row
\* is added or removed, every row keeps its id, media locator and media
\* reference, every row but that of the candidate stays as it is, and the
\* media rows and the files stay as they are.
C26_RepollFrame ==
    [][\A r \in Runs :
        (ThreadCommit(r) /\ run[r].existing)
        => /\ media' = media
           /\ files' = files
           /\ Len(news') = Len(news)
           /\ \A i \in DOMAIN news :
                /\ news'[i].external_id = news[i].external_id
                /\ news'[i].media_url = news[i].media_url
                /\ news'[i].media_uid = news[i].media_uid
                /\ news[i].external_id # run[r].post.external_id => news'[i] = news[i]]_vars

\* C26 witness: the ORM tree has polled one candidate, found it stored and
\* written it, on a store where p1 has its media reference.
C26_Witness ==
    /\ tree = "app"
    /\ run["r1"].pc = "thread"
    /\ run["r1"].fetched = 1
    /\ run["r1"].processed = 0
    /\ Len(news) = 2
    /\ news[1].media_uid # Null

\* run r is in its polling loop
Polling(rr) == rr.pc \in {"thread", "commit"}

\* C27: within a run the subscriptions are polled one at a time in listing
\* order: the run starts with the first, and the poll of the next one starts,
\* with nothing fetched yet, in the step that ends or fails the poll of the
\* one before it; a row is added to the table only as the last row and is the
\* row of the post fetched last; the run has no download task while it polls,
\* and it enters its media phase only from the poll of the last subscription.
C27_SequentialOrder ==
    [][\A r \in Runs :
        LET rr == run[r]
            rn == run'[r]
        IN /\ (rr.pc = "idle" /\ Polling(rn)) => rn.subIdx = 1 /\ rn.fetched = 0
           /\ (Polling(rr) /\ Polling(rn))
                => \/ rn.subIdx = rr.subIdx
                   \/ /\ rn.subIdx = rr.subIdx + 1
                      /\ rn.pc = "thread"
                      /\ rn.fetched = 0
                      /\ ThreadEnd(r) \/ ThreadFeedError(r) \/ ThreadStoreError(r)
                            \/ ThreadCommit(r)
           /\ (Polling(rr) /\ rr.pc = "thread" /\ rn.pc = "commit")
                => rn.fetched = rr.fetched + 1
           /\ (Polling(rr) /\ news' # news /\ Len(news') # Len(news))
                => rr.pc = "commit" /\ news' = Append(news, NewRow(rr.post))
           /\ Polling(rr) => rr.tasks = NoTasks
           /\ (Polling(rr) /\ rn.pc \in {"pending", "gather"})
                => rr.subIdx = Len(rr.subs)]_vars

\* C27 witness: the raw-SQL tree's first run has polled both subscriptions,
\* stored an item of each, and has a download in flight.
C27_Witness ==
    /\ tree = "src"
    /\ started = 1
    /\ run["r1"].pc = "gather"
    /\ \E e \in DOMAIN run["r1"].tasks : run["r1"].tasks[e].st = "inflight"
    /\ Len(news) = 2

\* C28: a run with an item budget M >= 1 never fetches more than M candidates
\* from the feed over all its subscriptions, new or already stored.
C28_FetchBudget ==
    \A r \in Runs :
        (run[r].pc # "idle" /\ run[r].max_posts >= 1)
            => run[r].polled <= run[r].max_posts

\* C29: the task of an item whose locator is empty ends in its first step,
\* whether or not a download slot is free: it is never in flight, the set of
\* slot holders stays as it is, no file name is drawn, no file is written, and
\* the news rows and the media rows stay as they are.
C29_EmptyLocatorSkipped ==
    /\ [](\A r \in Runs : \A e \in DOMAIN run[r].tasks :
          run[r].tasks[e].url \in {"", Null}
              => /\ run[r].tasks[e].st \in {"new", "done"}
                 /\ \A f \in files : f.item # e
                 /\ \A i \in RowsOf(news, e) : news[i].media_uid = Null)
    /\ [][\A r \in Runs : \A e \in DOMAIN run[r].tasks :
          (/\ run[r].tasks[e].url \in {"", Null}
           /\ e \in DOMAIN run'[r].tasks
           /\ run'[r].tasks[e].st # run[r].tasks[e].st)
          => /\ run'[r].tasks[e].st = "done"
             /\ InFlight(run'[r]) = InFlight(run[r])
             /\ files' = files
             /\ nextUid' = nextUid
             /\ news' = news
             /\ media' = media]_vars

\* C29 witness: with one download slot, held by the download of p2, the task
\* of p1, whose locator is empty, has ended.
C29_Witness ==
    \E r \in Runs :
        /\ run[r].pc = "gather"
        /\ run[r].max_concurrent = 1
        /\ DOMAIN run[r].tasks = {"p1", "p2"}
        /\ run[r].tasks["p1"].url = ""
        /\ run[r].tasks["p1"].st = "done"
        /\ run[r].tasks["p2"].st = "inflight"

\* the image meta tags of a prefix that carry a content value
ImageTags(prefix) ==
    {i \in DOMAIN prefix :
        prefix[i].key \in {"og:image", "twitter:image"} /\ prefix[i].content # ""}

\* C31: when the first bytes of a loader page hold an og:image or
\* twitter:image tag with a content value, download_file re-fetches the
\* content value of the first such tag, whatever tags come before it.
C31_RefetchesImageTag ==
    (call.stage = "scanned" /\ ImageTags(call.prefix) # {})
    => /\ call.result.outcome = "refetch"
       /\ call.result.url =
            call.prefix[CHOOSE i \in ImageTags(call.prefix) :
                            \A j \in ImageTags(call.prefix) : i <= j].content

\* the generator of download_many has ended: exhausted after the last task,
\* or with the exception of a task
GeneratorEnded(c) ==
    \/ c.raised
    \/ Len(c.yielded) = Len(c.completed) /\ \A i \in 1..MaxUrls : c.st[i] = "done"

\* C32: the pairs download_many has yielded are, in this order, the pairs
\* (url, result) of the tasks that ended first, each task once; the result of
\* a skipped download is None; and when the generator has ended it has
\* yielded exactly one pair for every submitted URL.
C32_OnePairInCompletionOrder ==
    call.stage = "many" =>
        /\ Len(call.yielded) <= Len(call.completed)
        /\ \A k \in DOMAIN call.yielded :
              /\ call.st[call.completed[k]] = "done"
              /\ call.yielded[k] = <<call.urls[call.completed[k]],
                                     call.result[call.completed[k]]>>
              /\ call.result[call.completed[k]] # "pending"
        /\ \A j \in DOMAIN call.completed, k \in DOMAIN call.completed :
              call.completed[j] = call.completed[k] => j = k
        /\ \A i \in 1..MaxUrls :
              (call.st[i] = "done" /\ call.urls[i] = "") => call.result[i] = "None"
        /\ GeneratorEnded(call)
              => /\ Len(call.yielded) = MaxUrls
                 /\ \A i \in 1..MaxUrls : \E k \in DOMAIN call.yielded : call.completed[k] = i

\* C33: the limit the media phase hands to a download is the configured
\* MAX_MEDIA_SIZE, and a response is refused as too large exactly when its
\* declared length exceeds the configured value.
C33_ConfiguredLimitEnforced ==
    /\ call.stage \in {"called", "checked"} => call.max_size = call.max_media_size
    /\ call.stage = "checked" =>
          (call.outcome = "too large" <=> call.size > call.max_media_size)

\* C34: every media row names a file that was written completely, and a
\* media row, once stored, stays in the table as it is over every step of
\* every run.
C34_MediaRowsAfterSuccessAndKept ==
    /\ [](\A m \in media :
            \E f \in files : f.uid = m.uid_filename /\ f.complete)
    /\ [][\A m \in media : m \in media']_vars

\* C34 witness: the ORM tree holds the media row of p1's first download while
\* a second download of p1 has written its file and its insert was absorbed.
C34_Witness ==
    /\ tree = "app"
    /\ Cardinality(media) = 1
    /\ Cardinality({f \in files : f.item = "p1" /\ f.complete}) = 2
    /\ \E r \in Runs :
          /\ run[r].pc = "gather"
          /\ "p1" \in DOMAIN run[r].tasks
          /\ run[r].tasks["p1"].st \in {"added", "done"}

\* C35: the media reference of a news row, when set, is the uid_filename of a
\* stored media row.
C35_ReferenceHasMediaRow ==
    \A i \in DOMAIN news :
        news[i].media_uid # Null
            => \E m \in media : m.uid_filename = news[i].media_uid

\* C36: under the scheduler of main() no two sync_news_task runs execute at
\* the same time.
C36_RunsNeverOverlap ==
    call.stage = "scheduler"
        => /\ Instances(call.onstart) + Instances(call.sync_news) <= 1
           /\ ~(Polling(run[JobRun("onstart")]) /\ Polling(run[JobRun("sync_news")]))

\* the attempt of run r on item e fails in this step: download_media returns
\* None or raises, or add_media or update_news_media raises
AttemptFails(r, e) ==
    \/ \E partial \in BOOLEAN : TaskDownloadFailed(r, e, partial)
    \/ TaskMediaDirError(r, e)
    \/ TaskAddMediaError(r, e)
    \/ TaskUpdateNewsError(r, e)

\* C37: when the attempt on a pending item fails, the item keeps its media
\* reference unset, there is no media row of the item or of the file of the
\* attempt, and the item is pending again; every media phase takes up all
\* the pending items.
C37_FailedItemRetried ==
    [][\A r \in Runs, e \in Ids :
        /\ AttemptFails(r, e) =>
              /\ \A i \in RowsOf(news', e) : news'[i].media_uid = Null
              /\ \A m \in media' :
                    m.news_external_id # e /\ m.uid_filename # run[r].tasks[e].uid
              /\ e \in get_pending_media(news')
        /\ (run[r].pc = "pending" /\ run'[r].pc = "gather")
              => DOMAIN run'[r].tasks = get_pending_media(news)]_vars

\* C38: when a media phase has completed, every file of the media directory
\* has exactly one media row with the file's name as uid_filename.
C38_NoOrphanFiles ==
    [][\A r \in Runs :
        (run[r].pc = "gather" /\ run'[r].pc = "idle")
        => \A f \in files' :
              Cardinality({m \in media' : m.uid_filename = f.uid}) = 1]_vars

\* the run's locals with the budget replaced by None
Unbudgeted(rr) == [rr EXCEPT !.max_posts = NoBudget]

\* C39: sync_all takes an item budget of 0 for no budget: a run started with
\* max_posts = 0 on a non-empty subscription list begins to poll the first
\* subscription; while it polls, the budget check is false and the
\* per-subscription limit is the default 100, both as for max_posts = None;
\* it goes from one subscription to the next and leaves the polling loop only
\* from the poll of the last subscription.
C39_ZeroBudgetIsNoBudget ==
    /\ [](\A r \in Runs :
            (Polling(run[r]) /\ run[r].max_posts = 0)
            => /\ thread_limit(tree, run[r]) = DefaultLimit
               /\ thread_limit(tree, run[r]) = thread_limit(tree, Unbudgeted(run[r]))
               /\ ~BudgetReached(tree, run[r])
               /\ BudgetReached(tree, run[r]) = BudgetReached(tree, Unbudgeted(run[r])))
    /\ [][\A r \in Runs :
            LET rr == run[r]
                rn == run'[r]
            IN /\ (tree = "app" /\ SyncAllStart(r, 0) /\ Len(subscriptions) >= 1)
                    => /\ rn.pc = "thread"
                       /\ rn.subIdx = 1
                       /\ rn.max_posts = 0
               /\ (Polling(rr) /\ rr.max_posts = 0 /\ Polling(rn))
                    => /\ rn.max_posts = 0
                       /\ rn.subIdx \in {rr.subIdx, rr.subIdx + 1}
               /\ (Polling(rr) /\ rr.max_posts = 0 /\ ~Polling(rn))
                    => rr.subIdx = Len(rr.subs)]_vars

\* C39 witness: a run of the ORM tree started with max_posts = 0 has stored an
\* item of the first subscription and polls the second one.
C39_Witness ==
    /\ tree = "app"
    /\ run["r1"].pc = "thread"
    /\ run["r1"].max_posts = 0
    /\ run["r1"].subIdx = 2
    /\ run["r1"].total >= 1
    /\ Len(run["r1"].subs) = 2

====
